---- MODULE Spec2Model ----
(***************************************************************************)
(* Model of rust-server-benchmarks: the epoll server engine                *)
(* (src/bin/server/epoll.rs), the wire codec (src/protocol.rs) and the     *)
(* open-loop and closed-loop load generators (src/bin/client/*.rs).        *)
(*                                                                         *)
(* The module holds several specifications over one set of variables; each *)
(* specification drives its own group of variables and leaves the other    *)
(* groups at their initial value.                                          *)
(*   SpecEpoll     acceptor + epoll workers + TCP peers                    *)
(*   SpecOpen      open-loop generator: sender/receiver pairs and a server *)
(*   FairSpecOpen  SpecOpen with weak fairness of every step               *)
(*   SpecClosed    closed-loop generator: concurrent clients and a server  *)
(***************************************************************************)
EXTENDS Integers, Sequences, FiniteSets, TLC

(***************************************************************************)
(* Bounds of the model.                                                    *)
(***************************************************************************)
\* TCP peers that may connect to the epoll server.
NSockets == 2
\* Frames a peer may start on one connection.
MaxReqs == 1
\* Largest num_clients of the open-loop generator explored.
MaxOpenClients == 2
\* Requests an open-loop sender may send before its deadline.
MaxSends == 2
\* Largest num_clients of the closed-loop generator explored.
MaxClosedClients == 2
\* Iterations a closed-loop client may start before its deadline.
MaxIters == 2

(***************************************************************************)
(* protocol.rs: constants and codec.                                       *)
(***************************************************************************)
REQUEST_SIZE == 17
RESPONSE_SIZE == 8

Min(a, b) == IF a <= b THEN a ELSE b

RECURSIVE shr8(_, _)
\* n >> (8 * k)
shr8(n, k) == IF k = 0 THEN n ELSE shr8(n \div 256, k - 1)

\* u64::to_be_bytes: most significant byte first.  (Values stay below 2^31,
\* the range of TLC's integers; the upper four bytes are then 0.)
to_be_bytes(n) == [i \in 1..8 |-> shr8(n, 8 - i) % 256]

RECURSIVE from_be_bytes(_)
\* u64::from_be_bytes over a sequence of 8 bytes.
from_be_bytes(bs) ==
    IF bs = <<>> THEN 0
    ELSE 256 * from_be_bytes(SubSeq(bs, 1, Len(bs) - 1)) + bs[Len(bs)]

\* Work values: Constant carries no payload (arg is 0 by convention).
WorkConstant == [kind |-> "Constant", arg |-> 0]
WorkBusy(amt) == [kind |-> "Busy", arg |-> amt]
WorkSleep(micros) == [kind |-> "Sleep", arg |-> micros]

\* A Work::serialize that writes the tag of Constant for every variant.
WorkSerialize_untagged(work) ==
    CASE work.kind = "Constant" -> <<0>> \o [i \in 1..8 |-> 0]
      [] work.kind = "Busy"     -> <<0>> \o to_be_bytes(work.arg)
      [] work.kind = "Sleep"    -> <<0>> \o to_be_bytes(work.arg)

\* impl Serialize for Work: a tag byte, then 8 payload bytes.
WorkSerialize(work) ==
    CASE work.kind = "Constant" -> <<0>> \o [i \in 1..8 |-> 0]
      [] work.kind = "Busy"     -> <<1>> \o to_be_bytes(work.arg)
      [] work.kind = "Sleep"    -> <<2>> \o to_be_bytes(work.arg)

\* impl Serialize for Request: send_time big-endian, then the work.
RequestSerialize(req) == to_be_bytes(req.send_time) \o WorkSerialize(req.work)

\* impl Serialize for Response.
ResponseSerialize(resp) == to_be_bytes(resp.client_send_time)

\* Read::read_exact on a Cursor: bytes pos+1..pos+n of data, or UnexpectedEof
\* when fewer than n remain (the cursor position is then unspecified by the
\* library; the model leaves it at the end of the data).
read_exact(data, pos, n) ==
    IF pos + n <= Len(data)
    THEN [ok |-> TRUE, bytes |-> SubSeq(data, pos + 1, pos + n), pos |-> pos + n]
    ELSE [ok |-> FALSE, bytes |-> <<>>, pos |-> Len(data)]

\* A Work::deserialize that takes every unknown tag for Constant.
WorkDeserialize_lenient(data, pos) ==
    LET id == read_exact(data, pos, 1) IN
    IF ~id.ok
    THEN [ok |-> FALSE, err |-> "UnexpectedEof", work |-> WorkConstant, pos |-> id.pos]
    ELSE LET p == read_exact(data, id.pos, 8) IN
         IF ~p.ok
         THEN [ok |-> FALSE, err |-> "UnexpectedEof", work |-> WorkConstant, pos |-> p.pos]
         ELSE [ok |-> TRUE, err |-> "",
               work |-> CASE id.bytes[1] = 1 -> WorkBusy(from_be_bytes(p.bytes))
                          [] id.bytes[1] = 2 -> WorkSleep(from_be_bytes(p.bytes))
                          [] OTHER -> WorkConstant,
               pos |-> p.pos]

\* impl Deserialize for Work, reading from data at cursor position pos.
WorkDeserialize(data, pos) ==
    LET id == read_exact(data, pos, 1) IN
    IF ~id.ok
    THEN [ok |-> FALSE, err |-> "UnexpectedEof", work |-> WorkConstant, pos |-> id.pos]
    ELSE IF id.bytes[1] \in {0, 1, 2}
    THEN LET p == read_exact(data, id.pos, 8) IN
         IF ~p.ok
         THEN [ok |-> FALSE, err |-> "UnexpectedEof", work |-> WorkConstant, pos |-> p.pos]
         ELSE [ok |-> TRUE, err |-> "",
               work |-> CASE id.bytes[1] = 0 -> WorkConstant
                          [] id.bytes[1] = 1 -> WorkBusy(from_be_bytes(p.bytes))
                          [] id.bytes[1] = 2 -> WorkSleep(from_be_bytes(p.bytes)),
               pos |-> p.pos]
    ELSE [ok |-> FALSE, err |-> "InvalidData", work |-> WorkConstant, pos |-> id.pos]

\* impl Deserialize for Request.
RequestDeserialize(data, pos) ==
    LET t == read_exact(data, pos, 8) IN
    IF ~t.ok
    THEN [ok |-> FALSE, err |-> "UnexpectedEof",
          req |-> [send_time |-> 0, work |-> WorkConstant], pos |-> t.pos]
    ELSE LET w == WorkDeserialize(data, t.pos) IN
         [ok |-> w.ok, err |-> w.err,
          req |-> [send_time |-> from_be_bytes(t.bytes), work |-> w.work],
          pos |-> w.pos]

\* impl Deserialize for Response.
ResponseDeserialize(data, pos) ==
    LET t == read_exact(data, pos, 8) IN
    IF ~t.ok
    THEN [ok |-> FALSE, err |-> "UnexpectedEof",
          resp |-> [client_send_time |-> 0], pos |-> t.pos]
    ELSE [ok |-> TRUE, err |-> "",
          resp |-> [client_send_time |-> from_be_bytes(t.bytes)], pos |-> t.pos]

\* Response::to_latency_record, given the values t1 and t2 that its first
\* and its second call of get_time return.  The second call is evaluated
\* only when the check on the first has passed.
to_latency_record(resp, t1, t2) ==
    LET send_time == resp.client_send_time
        recv_time == t1
    IN  IF recv_time < send_time
        THEN [panic |-> TRUE, reads |-> <<t1>>,
              record |-> [send_time |-> 0, recv_time |-> 0]]
        ELSE [panic |-> FALSE, reads |-> <<t1, t2>>,
              record |-> [send_time |-> resp.client_send_time, recv_time |-> t2]]

\* A do_work that loses the request's send_time.
do_work_stale(req) == [client_send_time |-> 0]

\* Request::do_work: run the work (service time only), echo send_time.
do_work(req) == [client_send_time |-> req.send_time]

\* Write::write_all on a Cursor<Vec<u8>>: overwrite from pos, growing the vector.
cursor_write_all(data, pos, bytes) ==
    [i \in 1..(IF pos + Len(bytes) > Len(data) THEN pos + Len(bytes) ELSE Len(data)) |->
        IF i > pos /\ i <= pos + Len(bytes) THEN bytes[i - pos] ELSE data[i]]

\* Vec::resize(n, 0): truncate, or pad with zeros.
\* A resize that clears the kept bytes.
resize_zeroed(data, n) == [i \in 1..n |-> 0]

resize(data, n) == [i \in 1..n |-> IF i <= Len(data) THEN data[i] ELSE 0]

(***************************************************************************)
(* State.                                                                  *)
(***************************************************************************)
VARIABLES
    \* --- epoll server (src/bin/server/epoll.rs) ---
    capacity,    \* argument of run: slots per worker
    n_threads,   \* argument of run: number of EpollThreads
    max_events,  \* argument of run: length of each worker's events buffer
    rx_conn,     \* the unbounded channel of accepted streams (tx -> rx)
    epoll,       \* worker -> its Epoll struct (conns, id_pool, kernel interest list)
    events,      \* worker -> events returned by the last wait, not yet serviced
    wpc,         \* worker -> where it is in EpollThread::run
    \* --- the TCP peers of the epoll server ---
    peer,        \* socket -> "idle" | "conn" | "closed" (the client's end)
    srv,         \* socket -> "none" | "open" | "closed" (the server's TcpStream)
    rxq,         \* socket -> bytes sent by the client, not yet read by the server
    out,         \* socket -> rest of the frame the client is writing
    nreq,        \* socket -> frames the client has started
    wrote,       \* socket -> bytes the server has written to the socket
    decoded,     \* socket -> requests the server has decoded from the socket
    \* --- open-loop generator (src/bin/client/open_loop.rs) ---
    open_num_clients, \* Config::num_clients
    open_pc,     \* Config::run: "spawn" | "running" | "returned"
    open_client, \* Config::run: index of the sender/receiver pair being run
    acc_n_reqs,  \* Config::run: the fold's accumulated request count
    acc_lrs,     \* Config::run: the fold's accumulated latency records
    done,        \* the AtomicBool shared by sender and receiver
    expired,     \* whether client_start.elapsed() >= runtime by now
    spc,         \* sender: "check" | "send" | "count" | "returned"
    is_last,     \* sender: local is_last
    requests_sent, \* sender: local requests_sent
    rpc,         \* receiver: "check" | "read" | "returned"
    lrs,         \* receiver: local lrs (each record named by its request)
    to_server,   \* requests written to the stream, not yet answered
    to_client,   \* responses written by the server, not yet read
    written,     \* requests the sender has written to the stream
    stores,      \* times done.store(true) has run
    sent_after_done, \* requests written after done was set
    read_after_done, \* responses read after done was set
    at_check,    \* whether the deadline had passed when the sender's iteration began
    \* --- closed-loop generator (src/bin/client/closed_loop.rs) ---
    closed_num_clients, \* Config::num_clients
    closed_pc,   \* Config::run: "running" | "returned" | "panicked"
    closed_result, \* Config::run: the records returned
    closed_joined, \* Config::run: the number of handles joined so far
    cpc,         \* client -> "connect" | "head" | "send" | "recv" | "returned" | "panicked"
    cexpired,    \* client -> whether client_start.elapsed() >= runtime by now
    latency_records, \* client -> local latency_records
    csent,       \* client -> requests it has written to its stream
    csend_time,  \* client -> send_time of the request last written (line 65)
    cnet,        \* client -> its connection: "idle" | "request" | "response" | "broken" | "closed"
    \* --- Response::to_latency_record (src/protocol.rs, src/utils.rs) ---
    lat_pc,      \* "call" | "returned" | "panicked"
    lat_send,    \* client_send_time of the response being converted
    lat_reads,   \* the values get_time returned during the call, in order
    lat_record,  \* the LatencyRecord returned (when lat_pc = "returned")
    \* --- thread-pool server (src/bin/server/threadpool.rs); its TCP peers
    \*     are the variables peer, srv, rxq, out, nreq, wrote, decoded above ---
    tp_size,     \* argument of run: number of pool threads
    tp_chan,     \* the pool's channel: accepted streams waiting for a thread
    tpc,         \* thread -> "recv" | "read" | "work" | "write" | "exited"
    tp_stream,   \* thread -> the socket _handle_client is serving (0: none)
    tp_req,      \* thread -> the bytes Request::deserialize has read so far
    tp_resp,     \* thread -> the Response do_work returned, not yet written
    tp_epipe,    \* sockets on which a write of the server has failed
    read_log,    \* socket -> send_time of each request read, in order
    \* --- the codec on its own (src/protocol.rs) ---
    codec_pc,    \* "idle" | "encoded" | "decoded"
    codec_in,    \* the value serialized, or the fields of the raw frame built
    codec_buf,   \* the bytes to deserialize
    codec_out,   \* the result of deserialize
    \* --- the pacing of one closed-loop client (closed_loop.rs), with the
    \*     monotonic clock counted in ticks since client_start ---
    pace_delay,  \* Config::delay
    pace_runtime, \* Config::runtime
    pace_service, \* ticks from a send to the arrival of its response
    pace_pc,     \* "head" | "exchange" | "pace" | "returned"
    pace_now,    \* client_start.elapsed()
    pace_start,  \* local start, as a reading of the same clock
    excess_duration, \* local excess_duration
    busy_wait_time,  \* local busy_wait_time of the last iteration
    pace_iters,  \* iterations completed
    pace_sent,   \* requests sent (history)
    \* --- the thread pool of the partial-open-loop generator
    \*     (src/bin/client/partial_open_loop.rs) ---
    pool_capacity, \* ThreadPool::capacity
    pool_size,   \* ThreadPool::size
    pool_ready,  \* ThreadPool::ready, read as a two's-complement number
    pool_chan,   \* the tasks channel: tasks sent and not yet received
    tx_alive,    \* whether the sending end of the channel still exists
    exec_pc,     \* the driver: "idle" | "spawn" | "send" | "dropped"
    exec_ready,  \* the value of ready that the running execute loaded
    sess_pc,     \* session thread -> "recv" | "sub" | "run" | "add" | "exited"
    sess_task,   \* session thread -> the task it has received (0: none)
    runs,        \* task -> times it has been run
    left_at_drop \* tasks in the channel when the sending end was dropped

epollVars == <<capacity, n_threads, max_events, rx_conn, epoll, events, wpc,
               peer, srv, rxq, out, nreq, wrote, decoded>>

openVars == <<open_num_clients, open_pc, open_client, acc_n_reqs, acc_lrs, done,
              expired, spc, is_last, requests_sent, rpc, lrs, to_server, to_client,
              written, stores, sent_after_done, read_after_done, at_check>>

closedVars == <<closed_num_clients, closed_pc, closed_result, closed_joined, cpc, cexpired,
                latency_records, csent, csend_time, cnet>>

latVars == <<lat_pc, lat_send, lat_reads, lat_record>>

\* The three groups above, and the groups that follow them.
baseVars == <<epollVars, openVars, closedVars>>
tpVars == <<tp_size, tp_chan, tpc, tp_stream, tp_req, tp_resp, tp_epipe, read_log>>
codecVars == <<codec_pc, codec_in, codec_buf, codec_out>>
paceVars == <<pace_delay, pace_runtime, pace_service, pace_pc, pace_now,
              pace_start, excess_duration, busy_wait_time, pace_iters, pace_sent>>
poolVars == <<pool_capacity, pool_size, pool_ready, pool_chan, tx_alive, exec_pc,
              exec_ready, sess_pc, sess_task, runs, left_at_drop>>
restVars == <<latVars, tpVars, codecVars, paceVars, poolVars>>

vars == <<epollVars, openVars, closedVars, restVars>>

\* What the actions of one group leave unchanged.
notLat == <<baseVars, tpVars, codecVars, paceVars, poolVars>>
notTp == <<openVars, closedVars, latVars, codecVars, paceVars, poolVars>>
notCodec == <<baseVars, latVars, tpVars, paceVars, poolVars>>
notPace == <<baseVars, latVars, tpVars, codecVars, poolVars>>
notPool == <<baseVars, latVars, tpVars, codecVars, paceVars>>

(***************************************************************************)
(* The value each group of variables keeps under the specifications that   *)
(* do not drive it.                                                        *)
(***************************************************************************)
\* A sender/receiver pair as _run_client creates it.
InitOpenPair ==
    /\ done = FALSE
    /\ expired = FALSE
    /\ spc = "check"
    /\ is_last = FALSE
    /\ requests_sent = 0
    /\ rpc = "check"
    /\ lrs = <<>>
    /\ to_server = <<>>
    /\ to_client = <<>>
    /\ written = 0
    /\ stores = 0
    /\ sent_after_done = 0
    /\ read_after_done = 0
    /\ at_check = FALSE

InitOpenIdle ==
    /\ open_num_clients = 0
    /\ open_pc = "returned"
    /\ open_client = 0
    /\ acc_n_reqs = 0
    /\ acc_lrs = <<>>
    /\ InitOpenPair

InitClosedIdle ==
    /\ closed_num_clients = 0
    /\ closed_pc = "returned"
    /\ closed_result = <<>>
    /\ closed_joined = 0
    /\ cpc = <<>> /\ cexpired = <<>> /\ latency_records = <<>>
    /\ csent = <<>> /\ csend_time = <<>> /\ cnet = <<>>

InitLatIdle ==
    /\ lat_pc = "returned" /\ lat_send = 0 /\ lat_reads = <<>>
    /\ lat_record = [send_time |-> 0, recv_time |-> 0]

InitTpIdle ==
    /\ tp_size = 0 /\ tp_chan = <<>> /\ tpc = <<>> /\ tp_stream = <<>>
    /\ tp_req = <<>>
    /\ tp_resp = <<>> /\ tp_epipe = {} /\ read_log = <<>>

InitCodecIdle ==
    /\ codec_pc = "decoded" /\ codec_in = [kind |-> "none"]
    /\ codec_buf = <<>> /\ codec_out = [ok |-> FALSE]

InitPaceIdle ==
    /\ pace_delay = 0 /\ pace_runtime = 0 /\ pace_service = 0
    /\ pace_pc = "returned" /\ pace_now = 0 /\ pace_start = 0
    /\ excess_duration = 0 /\ busy_wait_time = 0 /\ pace_iters = 0
    /\ pace_sent = 0

InitPoolIdle ==
    /\ pool_capacity = 0 /\ pool_size = 0 /\ pool_ready = 0 /\ pool_chan = <<>>
    /\ tx_alive = FALSE /\ exec_pc = "dropped" /\ exec_ready = 0
    /\ sess_pc = <<>> /\ sess_task = <<>> /\ runs = <<>> /\ left_at_drop = 0

\* Every group after the first three is idle, except the group named g.
InitRestIdle(g) ==
    /\ (g = "lat" \/ InitLatIdle)
    /\ (g = "tp" \/ InitTpIdle)
    /\ (g = "codec" \/ InitCodecIdle)
    /\ (g = "pace" \/ InitPaceIdle)
    /\ (g = "pool" \/ InitPoolIdle)

InitEpollIdle ==
    /\ capacity = 0 /\ n_threads = 0 /\ max_events = 0
    /\ rx_conn = <<>> /\ epoll = <<>> /\ events = <<>> /\ wpc = <<>>
    /\ peer = <<>> /\ srv = <<>> /\ rxq = <<>> /\ out = <<>> /\ nreq = <<>>
    /\ wrote = <<>> /\ decoded = <<>>

(***************************************************************************)
(* epoll.rs: Connection.                                                   *)
(***************************************************************************)
\* stream = 0 stands for None; a socket is named by a number in Sockets.
Sockets == 1..NSockets
Workers == 1..n_threads

\* Connection::new(None)
Connection_new ==
    [stream |-> 0, buf |-> [i \in 1..REQUEST_SIZE |-> 0], pos |-> 0, idx |-> 0,
     action |-> "Read"]

\* Connection::init
init(conn, stream) == [conn EXCEPT !.stream = stream]

\* A reset that keeps the index.
reset_keep_idx(conn, state) ==
    [stream |-> 0,
     buf |-> resize(conn.buf, IF state = "Read" THEN REQUEST_SIZE ELSE RESPONSE_SIZE),
     pos |-> 0,
     idx |-> conn.idx,
     action |-> state]

\* Connection::reset: resize the buffer for the new state, drop the stream,
\* rewind the cursor and the index.
reset(conn, state) ==
    [stream |-> 0,
     buf |-> resize(conn.buf, IF state = "Read" THEN REQUEST_SIZE ELSE RESPONSE_SIZE),
     pos |-> 0,
     idx |-> 0,
     action |-> state]

\* Connection::copy_until_blocked, one whole call.  io is what the socket
\* offers during the call: for a read the bytes queued (avail) and whether the
\* peer has closed (eof); for a write how many bytes the kernel takes before
\* it would block (room) and whether the connection is broken.
\* Returns the connection, the io::Result kind and the bytes moved.
copy_until_blocked(conn, io) ==
    LET size == IF conn.action = "Read" THEN REQUEST_SIZE ELSE RESPONSE_SIZE IN
    IF conn.action = "Read"
    THEN LET n == Min(Len(io.avail), size - conn.idx)
             c1 == [conn EXCEPT
                      !.buf = [i \in 1..Len(conn.buf) |->
                                 IF i > conn.idx /\ i <= conn.idx + n
                                 THEN io.avail[i - conn.idx] ELSE conn.buf[i]],
                      !.idx = conn.idx + n]
         IN [conn |-> c1, n |-> n,
             res |-> IF c1.idx = size THEN "Ok"
                     ELSE IF io.eof THEN "UnexpectedEof"
                     ELSE "WouldBlock"]
    ELSE IF io.broken
         THEN [conn |-> conn, n |-> 0, res |-> "BrokenPipe"]
         ELSE LET n == Min(io.room, size - conn.idx)
                  c1 == [conn EXCEPT !.idx = conn.idx + n]
              IN [conn |-> c1, n |-> n,
                  res |-> IF c1.idx = size THEN "Ok" ELSE "WouldBlock"]

\* Connection::deserialize_request: Request::deserialize on the cursor.
deserialize_request(conn) == RequestDeserialize(conn.buf, conn.pos)

\* Connection::serialize_response: Response::serialize on the cursor.
serialize_response(conn, response) ==
    [conn EXCEPT !.buf = cursor_write_all(conn.buf, conn.pos, ResponseSerialize(response)),
                 !.pos = conn.pos + RESPONSE_SIZE]

(***************************************************************************)
(* epoll.rs: Epoll.  interest is the kernel's interest list of epoll_fd: a *)
(* set of entries [fd, flags, data].                                       *)
(***************************************************************************)
Epoll_new(cap) ==
    [capacity |-> cap,
     conns |-> [i \in 0..(cap - 1) |-> Connection_new],
     id_pool |-> [i \in 1..cap |-> i - 1],
     interest |-> {}]

\* Streams held by the slots of e.
Held(e) == {e.conns[i].stream : i \in DOMAIN e.conns} \ {0}

\* Closing a file descriptor removes it from every interest list: entries of
\* fds that no slot holds any more disappear.
kernel_close(e) == [e EXCEPT !.interest = {x \in @ : x.fd \in Held(e)}]

\* An add that leaves the index it uses in the free list.
add_no_pop(e, stream) ==
    LET id == e.id_pool[Len(e.id_pool)] IN
    [e EXCEPT !.interest = @ \cup {[fd |-> stream, flags |-> "EPOLLIN", data |-> id]},
              !.conns[id] = init(@, stream)]

\* Epoll::add (the caller has checked that id_pool is not empty).
add(e, stream) ==
    LET id == e.id_pool[Len(e.id_pool)] IN
    [e EXCEPT !.id_pool = SubSeq(@, 1, Len(@) - 1),
              !.interest = @ \cup {[fd |-> stream, flags |-> "EPOLLIN", data |-> id]},
              !.conns[id] = init(@, stream)]

\* Epoll::delete
delete(e, id) ==
    LET stream == e.conns[id].stream IN
    kernel_close(
      [e EXCEPT !.interest = {x \in @ : x.fd # stream},
                !.conns[id] = reset(@, "Read"),
                !.id_pool = Append(@, id)])

\* Epoll::modify
modify(e, id, state) ==
    LET stream == e.conns[id].stream
        flags == IF state = "Read" THEN "EPOLLIN" ELSE "EPOLLOUT" IN
    kernel_close(
      [e EXCEPT !.interest = {x \in @ : x.fd # stream}
                               \cup {[fd |-> stream, flags |-> flags, data |-> id]},
                !.conns[id] = reset(@, state)])

\* Epoll::is_empty / Epoll::is_full
is_empty(e) == Len(e.id_pool) = e.capacity
is_full(e) == e.id_pool = <<>>

\* The thread unwinds on a panic: the EpollThread is dropped with every stream.
unwind(e) == kernel_close([e EXCEPT !.conns = [i \in DOMAIN @ |-> [@[i] EXCEPT !.stream = 0]]])

(***************************************************************************)
(* The TCP peers.  A peer writes 17-byte frames the way Request::serialize *)
(* does, in three writes of 8, 1 and 8 bytes; it may also write a frame    *)
(* whose tag byte names no Work variant.                                   *)
(***************************************************************************)
\* The arguments (capacity, n_threads, max_events) of run that are explored.
Configs == {<<1, 1, 1>>, <<2, 1, 1>>, <<2, 1, 2>>, <<1, 2, 1>>}

\* A frame with an arbitrary tag byte, as a raw peer may send it.
RawFrame(send_time, tag, payload) ==
    to_be_bytes(send_time) \o <<tag>> \o to_be_bytes(payload)

ClientFrames ==
    { RequestSerialize([send_time |-> 258, work |-> WorkConstant]),
      RequestSerialize([send_time |-> 1000, work |-> WorkBusy(3)]),
      RequestSerialize([send_time |-> 77, work |-> WorkSleep(400000)]),
      RawFrame(1000, 3, 0) }

\* The bytes of the next write of a frame whose unwritten rest is rest.
NextChunk(rest) ==
    IF Len(rest) = REQUEST_SIZE THEN SubSeq(rest, 1, 8)
    ELSE IF Len(rest) = 9 THEN SubSeq(rest, 1, 1)
    ELSE rest

\* run, lines 27-32: the acceptor accepts a connecting peer and sends the
\* stream down the channel.
Accept(c) ==
    /\ peer[c] = "idle"
    /\ peer' = [peer EXCEPT ![c] = "conn"]
    /\ srv' = [srv EXCEPT ![c] = "open"]
    /\ rx_conn' = Append(rx_conn, c)
    /\ UNCHANGED <<openVars, closedVars, restVars>>
    /\ UNCHANGED <<capacity, n_threads, max_events, epoll, events, wpc,
                   rxq, out, nreq, wrote, decoded>>

\* The peer starts a frame and writes its first 8 bytes.
ClientStart(c) ==
    /\ peer[c] = "conn" /\ srv[c] = "open"
    /\ out[c] = <<>>
    /\ nreq[c] < MaxReqs
    /\ \E f \in ClientFrames :
         /\ rxq' = [rxq EXCEPT ![c] = @ \o NextChunk(f)]
         /\ out' = [out EXCEPT ![c] = SubSeq(f, Len(NextChunk(f)) + 1, Len(f))]
    /\ nreq' = [nreq EXCEPT ![c] = @ + 1]
    /\ UNCHANGED <<openVars, closedVars, restVars>>
    /\ UNCHANGED <<capacity, n_threads, max_events, rx_conn, epoll, events, wpc,
                   peer, srv, wrote, decoded>>

\* The peer's next write of the frame it has started.
ClientWrite(c) ==
    /\ peer[c] = "conn" /\ srv[c] = "open"
    /\ out[c] # <<>>
    /\ rxq' = [rxq EXCEPT ![c] = @ \o NextChunk(out[c])]
    /\ out' = [out EXCEPT ![c] = SubSeq(@, Len(NextChunk(@)) + 1, Len(@))]
    /\ UNCHANGED <<openVars, closedVars, restVars>>
    /\ UNCHANGED <<capacity, n_threads, max_events, rx_conn, epoll, events, wpc,
                   peer, srv, nreq, wrote, decoded>>

\* The peer closes its end (at any point, also inside a frame).
ClientClose(c) ==
    /\ peer[c] = "conn"
    /\ peer' = [peer EXCEPT ![c] = "closed"]
    /\ out' = [out EXCEPT ![c] = <<>>]
    /\ UNCHANGED <<openVars, closedVars, restVars>>
    /\ UNCHANGED <<capacity, n_threads, max_events, rx_conn, epoll, events, wpc,
                   srv, rxq, nreq, wrote, decoded>>

(***************************************************************************)
(* epoll.rs: EpollThread::run.  wpc is "admit" in lines 265-280, "wait"    *)
(* inside Epoll::wait (line 282), "service" in the for loop (284-314),     *)
(* "work" inside Request::do_work (line 305; the thread sleeps there for   *)
(* Work::Sleep and loops for Work::Busy) and "dead" once the thread has    *)
(* panicked.                                                               *)
(***************************************************************************)
\* Lines 266-269: the pool is empty, block on the channel and add the stream.
AdmitFirst(w) ==
    /\ wpc[w] = "admit"
    /\ is_empty(epoll[w])
    /\ rx_conn # <<>>
    /\ epoll' = [epoll EXCEPT ![w] = add(@, Head(rx_conn))]
    /\ rx_conn' = Tail(rx_conn)
    /\ UNCHANGED <<openVars, closedVars, restVars>>
    /\ UNCHANGED <<capacity, n_threads, max_events, events, wpc,
                   peer, srv, rxq, out, nreq, wrote, decoded>>

\* Lines 273-277: the pool is neither empty nor full and try_recv yields a stream.
AdmitMore(w) ==
    /\ wpc[w] = "admit"
    /\ ~is_empty(epoll[w]) /\ ~is_full(epoll[w])
    /\ rx_conn # <<>>
    /\ epoll' = [epoll EXCEPT ![w] = add(@, Head(rx_conn))]
    /\ rx_conn' = Tail(rx_conn)
    /\ UNCHANGED <<openVars, closedVars, restVars>>
    /\ UNCHANGED <<capacity, n_threads, max_events, events, wpc,
                   peer, srv, rxq, out, nreq, wrote, decoded>>

\* Lines 273-282: the pool is full or the channel is empty; call Epoll::wait.
EnterWait(w) ==
    /\ wpc[w] = "admit"
    /\ ~is_empty(epoll[w])
    /\ is_full(epoll[w]) \/ rx_conn = <<>>
    /\ wpc' = [wpc EXCEPT ![w] = "wait"]
    /\ UNCHANGED <<openVars, closedVars, restVars>>
    /\ UNCHANGED <<capacity, n_threads, max_events, rx_conn, epoll, events,
                   peer, srv, rxq, out, nreq, wrote, decoded>>

\* Level-triggered readiness of an interest-list entry.
Ready(x) ==
    \/ x.flags = "EPOLLIN" /\ (rxq[x.fd] # <<>> \/ peer[x.fd] = "closed")
    \/ x.flags = "EPOLLOUT"

\* Epoll::wait (no timeout) returns: up to max_events ready entries.
Wait(w) ==
    /\ wpc[w] = "wait"
    /\ LET ready == {x \in epoll[w].interest : Ready(x)} IN
       /\ ready # {}
       /\ \E S \in SUBSET ready :
            /\ Cardinality(S) = Min(Cardinality(ready), max_events)
            /\ events' = [events EXCEPT ![w] = {x.data : x \in S}]
    /\ wpc' = [wpc EXCEPT ![w] = "service"]
    /\ UNCHANGED <<openVars, closedVars, restVars>>
    /\ UNCHANGED <<capacity, n_threads, max_events, rx_conn, epoll,
                   peer, srv, rxq, out, nreq, wrote, decoded>>

\* An event handler that gives up the connection when the copy would block.
Outcome_eager(conn, r) ==
    IF r.res # "Ok" THEN "Delete"
    ELSE IF r.conn.action = "Read"
         THEN IF deserialize_request(r.conn).ok THEN "ToWrite" ELSE "Panic"
         ELSE "ToRead"

\* What lines 291-313 do with one event: "WouldBlock" (continue), "Delete",
\* "ToWrite", "ToRead", or "Panic" (an unwrap or expect fails).
Outcome(conn, r) ==
    IF r.res = "WouldBlock" THEN "WouldBlock"
    ELSE IF r.res # "Ok" THEN "Delete"
    ELSE IF r.conn.action = "Read"
         THEN IF deserialize_request(r.conn).ok THEN "ToWrite" ELSE "Panic"
         ELSE "ToRead"

\* The Epoll struct after the event on slot id has been handled, up to the
\* call of do_work for a request that decodes ("ToWrite": the cursor of the
\* buffer is then behind the request).
Handled(e, id, r, outcome) ==
    LET e1 == [e EXCEPT !.conns[id] = r.conn] IN
    CASE outcome = "WouldBlock" -> e1
      [] outcome = "Delete" -> delete(e1, id)
      [] outcome = "ToWrite" ->
           [e1 EXCEPT !.conns[id].pos = deserialize_request(r.conn).pos]
      [] outcome = "ToRead" -> modify(e1, id, "Read")
      [] outcome = "Panic" -> unwind(e1)

\* Lines 305-307, from the return of do_work: the response is serialized
\* into the buffer of slot id and the slot is flipped to Write.
Worked(e, id) ==
    LET conn == e.conns[id]
        d == deserialize_request([conn EXCEPT !.pos = 0])
        c2 == serialize_response(conn, do_work(d.req))
    IN modify([e EXCEPT !.conns[id] = c2], id, "Write")

\* The slots of e whose request is complete and decoded while the worker is
\* in do_work: the slot of the loop variable id (line 288).
AtWork(e) ==
    {i \in DOMAIN e.conns :
        /\ e.conns[i].stream # 0
        /\ e.conns[i].action = "Read"
        /\ e.conns[i].idx = REQUEST_SIZE}

\* Lines 284-314: one iteration of the for loop, on one of the events returned.
Service(w) ==
    /\ wpc[w] = "service"
    /\ \E id \in events[w] :
       \E room \in IF epoll[w].conns[id].action = "Write" THEN 1..RESPONSE_SIZE ELSE {0} :
         LET e == epoll[w]
             conn == e.conns[id]
             fd == conn.stream
             io == [avail |-> rxq[fd], eof |-> peer[fd] = "closed",
                    room |-> room, broken |-> peer[fd] = "closed"]
             r == copy_until_blocked(conn, io)
             outcome == IF fd = 0 THEN "Panic" ELSE Outcome(conn, r)
             e2 == IF fd = 0 THEN unwind(e) ELSE Handled(e, id, r, outcome)
             gone == Held(e) \ Held(e2)
         IN
         /\ epoll' = [epoll EXCEPT ![w] = e2]
         /\ events' = [events EXCEPT ![w] = IF outcome = "Panic" THEN {} ELSE @ \ {id}]
         /\ wpc' = [wpc EXCEPT ![w] =
                      IF outcome = "Panic" THEN "dead"
                      ELSE IF outcome = "ToWrite" THEN "work"
                      ELSE IF events[w] \ {id} = {} THEN "admit" ELSE "service"]
         /\ srv' = [c \in Sockets |-> IF c \in gone THEN "closed" ELSE srv[c]]
         /\ rxq' = [c \in Sockets |->
                      IF c \in gone THEN <<>>
                      ELSE IF c = fd /\ conn.action = "Read"
                           THEN SubSeq(rxq[c], r.n + 1, Len(rxq[c]))
                           ELSE rxq[c]]
         /\ wrote' = [c \in Sockets |->
                      IF c = fd /\ conn.action = "Write"
                      THEN wrote[c] \o SubSeq(conn.buf, conn.idx + 1, conn.idx + r.n)
                      ELSE wrote[c]]
         /\ decoded' = [c \in Sockets |->
                      IF c = fd /\ outcome = "ToWrite" THEN decoded[c] + 1 ELSE decoded[c]]
    /\ UNCHANGED <<openVars, closedVars, restVars>>
    /\ UNCHANGED <<capacity, n_threads, max_events, rx_conn, peer, out, nreq>>

\* Lines 305-307: do_work returns (after the sleep of Work::Sleep, the loop
\* of Work::Busy, or at once), the response is serialized, Epoll::modify
\* flips the slot to Write, and the for loop goes on.
Work(w) ==
    /\ wpc[w] = "work"
    /\ \E id \in AtWork(epoll[w]) :
         LET e == epoll[w]
             e2 == Worked(e, id)
             gone == Held(e) \ Held(e2)
         IN
         /\ epoll' = [epoll EXCEPT ![w] = e2]
         /\ srv' = [c \in Sockets |-> IF c \in gone THEN "closed" ELSE srv[c]]
         /\ rxq' = [c \in Sockets |-> IF c \in gone THEN <<>> ELSE rxq[c]]
    /\ wpc' = [wpc EXCEPT ![w] = IF events[w] = {} THEN "admit" ELSE "service"]
    /\ UNCHANGED <<openVars, closedVars, restVars>>
    /\ UNCHANGED <<capacity, n_threads, max_events, rx_conn, events, peer, out, nreq,
                   wrote, decoded>>

InitEpoll ==
    /\ \E cfg \in Configs :
         /\ capacity = cfg[1]
         /\ n_threads = cfg[2]
         /\ max_events = cfg[3]
    /\ rx_conn = <<>>
    /\ epoll = [w \in 1..n_threads |-> Epoll_new(capacity)]
    /\ events = [w \in 1..n_threads |-> {}]
    /\ wpc = [w \in 1..n_threads |-> "admit"]
    /\ peer = [c \in Sockets |-> "idle"]
    /\ srv = [c \in Sockets |-> "none"]
    /\ rxq = [c \in Sockets |-> <<>>]
    /\ out = [c \in Sockets |-> <<>>]
    /\ nreq = [c \in Sockets |-> 0]
    /\ wrote = [c \in Sockets |-> <<>>]
    /\ decoded = [c \in Sockets |-> 0]
    /\ InitOpenIdle
    /\ InitClosedIdle
    /\ InitRestIdle("")

NextEpoll ==
    \/ \E c \in Sockets : Accept(c)
    \/ \E c \in Sockets : ClientStart(c)
    \/ \E c \in Sockets : ClientWrite(c)
    \/ \E c \in Sockets : ClientClose(c)
    \/ \E w \in Workers : AdmitFirst(w)
    \/ \E w \in Workers : AdmitMore(w)
    \/ \E w \in Workers : EnterWait(w)
    \/ \E w \in Workers : Wait(w)
    \/ \E w \in Workers : Service(w)
    \/ \E w \in Workers : Work(w)

SpecEpoll == InitEpoll /\ [][NextEpoll]_vars

(***************************************************************************)
(* open_loop.rs.  Config::run maps 0..num_clients lazily and folds: the    *)
(* fold joins the sender and the receiver of one pair before the next pair *)
(* is started, so one pair runs at a time.  The server is taken to answer  *)
(* every request of the connection in order, and the wall clock not to     *)
(* step backwards (to_latency_record yields a record).                     *)
(***************************************************************************)
\* Line 90: is_last = client_start.elapsed() >= self.runtime
sender_is_last(elapsed_ge_runtime) == elapsed_ge_runtime

\* Mutant: the store to done is left out.
sender_store_never(flag, last) == flag

\* Lines 91-93: if is_last { done.store(true) }
sender_store(flag, last) == IF last THEN TRUE ELSE flag

\* Mutant: the sender returns on is_last before sending.
sender_send_skip_last(stream, id, last) == IF last THEN stream ELSE Append(stream, id)

\* Lines 96-100: the request is serialized to the stream, last or not.
sender_send(stream, id, last) == Append(stream, id)

\* Lines 102-106: the value of requests_sent after the send.
sender_count(n, last) == IF last THEN n ELSE n + 1

\* Mutant: the receiver does not look at done.
receiver_continue_always(flag) == TRUE

\* Line 126: the receiver's loop condition.
receiver_continue(flag) == ~flag

\* Lines 127-129: the response is read, converted and pushed.
receiver_push(records, response) == Append(records, response)

\* Lines 48-49 of the fold: acc_n_reqs += n_reqs; acc_lrs.append(&mut lrs)
fold_step(acc, n_reqs, records) == <<acc[1] + n_reqs, acc[2] \o records>>

\* _run_client, lines 58-76: connect, create done, spawn receiver and sender.
OpenRunClient ==
    /\ open_pc = "spawn"
    /\ open_pc' = "running"
    /\ done' = FALSE
    /\ expired' = FALSE
    /\ spc' = "check"
    /\ is_last' = FALSE
    /\ requests_sent' = 0
    /\ rpc' = "check"
    /\ lrs' = <<>>
    /\ to_server' = <<>>
    /\ to_client' = <<>>
    /\ written' = 0
    /\ stores' = 0
    /\ sent_after_done' = 0
    /\ read_after_done' = 0
    /\ at_check' = FALSE
    /\ UNCHANGED <<open_num_clients, open_client, acc_n_reqs, acc_lrs>>
    /\ UNCHANGED <<epollVars, closedVars, restVars>>

\* The monotonic clock passes client_start + runtime.
Deadline ==
    /\ open_pc = "running"
    /\ ~expired
    /\ expired' = TRUE
    /\ UNCHANGED <<open_num_clients, open_pc, open_client, acc_n_reqs, acc_lrs, done,
                   spc, is_last, requests_sent, rpc, lrs, to_server, to_client,
                   written, stores, sent_after_done, read_after_done, at_check>>
    /\ UNCHANGED <<epollVars, closedVars, restVars>>

\* _run_sender, lines 86-93: the head of an iteration.  (An iteration that is
\* not the last starts only while fewer than MaxSends requests are counted.)
SenderCheck ==
    /\ open_pc = "running"
    /\ spc = "check"
    /\ expired \/ requests_sent < MaxSends
    /\ is_last' = sender_is_last(expired)
    /\ done' = sender_store(done, is_last')
    /\ stores' = IF done' # done THEN stores + 1 ELSE stores
    /\ spc' = "send"
    /\ UNCHANGED <<open_num_clients, open_pc, open_client, acc_n_reqs, acc_lrs,
                   expired, requests_sent, rpc, lrs, to_server, to_client,
                   written, sent_after_done, read_after_done>>
    /\ at_check' = expired
    /\ UNCHANGED <<epollVars, closedVars, restVars>>

\* _run_sender, lines 96-100: serialize and send the request.
SenderSend ==
    /\ open_pc = "running"
    /\ spc = "send"
    /\ to_server' = sender_send(to_server, written + 1, is_last)
    /\ written' = written + Len(to_server') - Len(to_server)
    /\ sent_after_done' = IF done THEN sent_after_done + Len(to_server') - Len(to_server)
                          ELSE sent_after_done
    /\ spc' = "count"
    /\ UNCHANGED <<open_num_clients, open_pc, open_client, acc_n_reqs, acc_lrs, done,
                   expired, is_last, requests_sent, rpc, lrs, to_client,
                   stores, read_after_done, at_check>>
    /\ UNCHANGED <<epollVars, closedVars, restVars>>

\* _run_sender, lines 102-118: return if last; else count, pace and loop.
SenderCount ==
    /\ open_pc = "running"
    /\ spc = "count"
    /\ requests_sent' = sender_count(requests_sent, is_last)
    /\ spc' = IF is_last THEN "returned" ELSE "check"
    /\ UNCHANGED <<open_num_clients, open_pc, open_client, acc_n_reqs, acc_lrs, done,
                   expired, is_last, rpc, lrs, to_server, to_client,
                   written, stores, sent_after_done, read_after_done, at_check>>
    /\ UNCHANGED <<epollVars, closedVars, restVars>>

\* The server answers the oldest unanswered request of the connection.
ServerAnswer ==
    /\ open_pc = "running"
    /\ to_server # <<>>
    /\ to_client' = Append(to_client, Head(to_server))
    /\ to_server' = Tail(to_server)
    /\ UNCHANGED <<open_num_clients, open_pc, open_client, acc_n_reqs, acc_lrs, done,
                   expired, spc, is_last, requests_sent, rpc, lrs,
                   written, stores, sent_after_done, read_after_done, at_check>>
    /\ UNCHANGED <<epollVars, closedVars, restVars>>

\* _run_receiver, line 126: load done.
ReceiverCheck ==
    /\ open_pc = "running"
    /\ rpc = "check"
    /\ rpc' = IF receiver_continue(done) THEN "read" ELSE "returned"
    /\ UNCHANGED <<open_num_clients, open_pc, open_client, acc_n_reqs, acc_lrs, done,
                   expired, spc, is_last, requests_sent, lrs, to_server, to_client,
                   written, stores, sent_after_done, read_after_done, at_check>>
    /\ UNCHANGED <<epollVars, closedVars, restVars>>

\* _run_receiver, lines 127-129: block until a response is there, read it,
\* convert it and push the record.
ReceiverRead ==
    /\ open_pc = "running"
    /\ rpc = "read"
    /\ to_client # <<>>
    /\ lrs' = receiver_push(lrs, Head(to_client))
    /\ to_client' = Tail(to_client)
    /\ read_after_done' = IF done THEN read_after_done + 1 ELSE read_after_done
    /\ rpc' = "check"
    /\ UNCHANGED <<open_num_clients, open_pc, open_client, acc_n_reqs, acc_lrs, done,
                   expired, spc, is_last, requests_sent, to_server,
                   written, stores, sent_after_done, at_check>>
    /\ UNCHANGED <<epollVars, closedVars, restVars>>

\* Config::run, lines 44-52: join both threads and accumulate; then the next
\* pair is started, or the fold returns.
OpenJoin ==
    /\ open_pc = "running"
    /\ spc = "returned" /\ rpc = "returned"
    /\ acc_n_reqs' = fold_step(<<acc_n_reqs, acc_lrs>>, requests_sent, lrs)[1]
    /\ acc_lrs' = fold_step(<<acc_n_reqs, acc_lrs>>, requests_sent, lrs)[2]
    /\ open_client' = open_client + 1
    /\ open_pc' = IF open_client + 1 < open_num_clients THEN "spawn" ELSE "returned"
    /\ UNCHANGED <<open_num_clients, done, expired, spc, is_last, requests_sent, rpc,
                   lrs, to_server, to_client, written, stores, sent_after_done,
                   read_after_done, at_check>>
    /\ UNCHANGED <<epollVars, closedVars, restVars>>

InitOpen ==
    /\ open_num_clients \in 1..MaxOpenClients
    /\ open_pc = "spawn"
    /\ open_client = 0
    /\ acc_n_reqs = 0
    /\ acc_lrs = <<>>
    /\ InitOpenPair
    /\ InitEpollIdle
    /\ InitClosedIdle
    /\ InitRestIdle("")

NextOpen ==
    \/ OpenRunClient
    \/ Deadline
    \/ SenderCheck
    \/ SenderSend
    \/ SenderCount
    \/ ServerAnswer
    \/ ReceiverCheck
    \/ ReceiverRead
    \/ OpenJoin

SpecOpen == InitOpen /\ [][NextOpen]_vars

\* Threads are scheduled, the clock advances and the server answers.
FairSpecOpen ==
    /\ SpecOpen
    /\ WF_vars(OpenRunClient) /\ WF_vars(Deadline)
    /\ WF_vars(SenderCheck) /\ WF_vars(SenderSend) /\ WF_vars(SenderCount)
    /\ WF_vars(ServerAnswer)
    /\ WF_vars(ReceiverCheck) /\ WF_vars(ReceiverRead)
    /\ WF_vars(OpenJoin)

(***************************************************************************)
(* closed_loop.rs.  Config::run spawns num_clients threads, each running   *)
(* _run_client on a connection of its own, then joins them in order.  A    *)
(* connection's server either answers the request or breaks the            *)
(* connection.  The deadline is on the monotonic clock (Instant); the      *)
(* send and receive times are readings of the wall clock (get_time).       *)
(***************************************************************************)
ClosedClients == 1..closed_num_clients

\* Largest reading of the wall clock (get_time) explored for the closed loop.
MaxClosedTime == 1
\* get_time reads the wall clock, which may step in either direction between
\* two readings: each call returns any value of ClosedTimes.
ClosedTimes == 0..MaxClosedTime

\* Line 60 (while client_start.elapsed() < self.runtime): the loop condition.
closed_continue(elapsed_ge_runtime) == ~elapsed_ge_runtime

\* Mutant: the record is not pushed.
closed_push_dropped(records, lr) == records

\* Line 73: the record is pushed.
closed_push(records, lr) == Append(records, lr)

RECURSIVE closed_flatten(_, _)
\* Lines 42-46: the joined vectors, flattened in spawn order.
closed_flatten(records, n) ==
    IF n = 0 THEN <<>> ELSE closed_flatten(records, n - 1) \o records[n]

\* _run_client, lines 55-56: TcpStream::connect(..).unwrap() and
\* set_nodelay(..).unwrap(); the thread panics if the server refuses.
ClosedConnect(i) ==
    /\ cpc[i] = "connect"
    /\ \E ok \in BOOLEAN :
         cpc' = [cpc EXCEPT ![i] = IF ok THEN "head" ELSE "panicked"]
    /\ UNCHANGED <<closed_num_clients, closed_pc, closed_result, closed_joined, cexpired,
                   latency_records, csent, cnet>>
    /\ UNCHANGED csend_time
    /\ UNCHANGED <<epollVars, openVars, restVars>>

\* _run_client, line 60: the loop head; past the deadline the client returns
\* its records (line 88) and its stream is dropped.  (An iteration starts
\* before the deadline only while fewer than MaxIters have been started.)
ClosedHead(i) ==
    /\ cpc[i] = "head"
    /\ cexpired[i] \/ csent[i] < MaxIters
    /\ cpc' = [cpc EXCEPT ![i] = IF closed_continue(cexpired[i]) THEN "send" ELSE "returned"]
    /\ cnet' = [cnet EXCEPT ![i] = IF closed_continue(cexpired[i]) THEN @ ELSE "closed"]
    /\ UNCHANGED <<closed_num_clients, closed_pc, closed_result, closed_joined, cexpired,
                   latency_records, csent>>
    /\ UNCHANGED csend_time
    /\ UNCHANGED <<epollVars, openVars, restVars>>

\* _run_client, lines 63-68: stamp the request with get_time(), serialize and
\* send it (the Result of serialize is not looked at).
ClosedSend(i) ==
    /\ cpc[i] = "send"
    /\ csent' = [csent EXCEPT ![i] = @ + 1]
    /\ \E now \in ClosedTimes : csend_time' = [csend_time EXCEPT ![i] = now]
    /\ cnet' = [cnet EXCEPT ![i] = IF @ = "broken" THEN "broken" ELSE "request"]
    /\ cpc' = [cpc EXCEPT ![i] = "recv"]
    /\ UNCHANGED <<closed_num_clients, closed_pc, closed_result, closed_joined, cexpired,
                   latency_records>>
    /\ UNCHANGED <<epollVars, openVars, restVars>>

\* _run_client, lines 71-85: the response has arrived and is read; it echoes
\* the request's send_time.  to_latency_record (line 72) reads the wall clock
\* and panics when it reads earlier than send_time: the thread dies and its
\* stream is dropped.  Otherwise the record is pushed and the client paces.
\* (Line 71 binds the io::Result of Response::deserialize and line 72 uses it
\* as a Response: the source defines nothing for a read that fails, and
\* there is no step for one.)
ClosedRecv(i) ==
    /\ cpc[i] = "recv"
    /\ cnet[i] = "response"
    /\ \E t1 \in ClosedTimes, t2 \in ClosedTimes :
         LET r == to_latency_record([client_send_time |-> csend_time[i]], t1, t2) IN
         IF r.panic
         THEN /\ cpc' = [cpc EXCEPT ![i] = "panicked"]
              /\ cnet' = [cnet EXCEPT ![i] = "closed"]
              /\ UNCHANGED latency_records
         ELSE /\ latency_records' = [latency_records EXCEPT ![i] = closed_push(@, r.record)]
              /\ cnet' = [cnet EXCEPT ![i] = "idle"]
              /\ cpc' = [cpc EXCEPT ![i] = "head"]
    /\ UNCHANGED <<closed_num_clients, closed_pc, closed_result, closed_joined, cexpired, csent>>
    /\ UNCHANGED csend_time
    /\ UNCHANGED <<epollVars, openVars, restVars>>

\* The server answers the request of connection i.
ClosedServerAnswer(i) ==
    /\ cnet[i] = "request"
    /\ cnet' = [cnet EXCEPT ![i] = "response"]
    /\ UNCHANGED <<closed_num_clients, closed_pc, closed_result, closed_joined, cpc, cexpired,
                   latency_records, csent>>
    /\ UNCHANGED csend_time
    /\ UNCHANGED <<epollVars, openVars, restVars>>

\* The server closes connection i instead of answering.
ClosedServerDrop(i) ==
    /\ cnet[i] = "request"
    /\ cnet' = [cnet EXCEPT ![i] = "broken"]
    /\ UNCHANGED <<closed_num_clients, closed_pc, closed_result, closed_joined, cpc, cexpired,
                   latency_records, csent>>
    /\ UNCHANGED csend_time
    /\ UNCHANGED <<epollVars, openVars, restVars>>

\* The monotonic clock passes client i's client_start + runtime.
ClosedDeadline(i) ==
    /\ cpc[i] \notin {"returned", "panicked"}
    /\ ~cexpired[i]
    /\ cexpired' = [cexpired EXCEPT ![i] = TRUE]
    /\ UNCHANGED <<closed_num_clients, closed_pc, closed_result, closed_joined, cpc,
                   latency_records, csent, cnet>>
    /\ UNCHANGED csend_time
    /\ UNCHANGED <<epollVars, openVars, restVars>>

\* Config::run, lines 42-46: the handles are joined one after the other, in
\* spawn order.  join returns once that thread has ended; unwrap panics, and
\* with it run, if the thread panicked, whatever the later threads are doing.
\* After the last join the vectors are flattened and returned.
ClosedJoin ==
    LET i == closed_joined + 1 IN
    /\ closed_pc = "running"
    /\ i \in ClosedClients
    /\ cpc[i] \in {"returned", "panicked"}
    /\ IF cpc[i] = "panicked"
       THEN /\ closed_pc' = "panicked"
            /\ UNCHANGED <<closed_result, closed_joined>>
       ELSE /\ closed_joined' = i
            /\ IF i = closed_num_clients
               THEN /\ closed_result' = closed_flatten(latency_records, closed_num_clients)
                    /\ closed_pc' = "returned"
               ELSE UNCHANGED <<closed_result, closed_pc>>
    /\ UNCHANGED <<closed_num_clients, cpc, cexpired, latency_records, csent, cnet>>
    /\ UNCHANGED csend_time
    /\ UNCHANGED <<epollVars, openVars, restVars>>

InitClosed ==
    /\ closed_num_clients \in 1..MaxClosedClients
    /\ closed_pc = "running"
    /\ closed_result = <<>>
    /\ closed_joined = 0
    /\ cpc = [i \in 1..closed_num_clients |-> "connect"]
    /\ cexpired = [i \in 1..closed_num_clients |-> FALSE]
    /\ latency_records = [i \in 1..closed_num_clients |-> <<>>]
    /\ csent = [i \in 1..closed_num_clients |-> 0]
    /\ csend_time = [i \in 1..closed_num_clients |-> 0]
    /\ cnet = [i \in 1..closed_num_clients |-> "idle"]
    /\ InitEpollIdle
    /\ InitOpenIdle
    /\ InitRestIdle("")

NextClosed ==
    \/ \E i \in ClosedClients : ClosedConnect(i)
    \/ \E i \in ClosedClients : ClosedHead(i)
    \/ \E i \in ClosedClients : ClosedSend(i)
    \/ \E i \in ClosedClients : ClosedRecv(i)
    \/ \E i \in ClosedClients : ClosedServerAnswer(i)
    \/ \E i \in ClosedClients : ClosedServerDrop(i)
    \/ \E i \in ClosedClients : ClosedDeadline(i)
    \/ ClosedJoin

SpecClosed == InitClosed /\ [][NextClosed]_vars

(***************************************************************************)
(* Properties of the epoll engine (SpecEpoll).                             *)
(***************************************************************************)
\* Slots of e that hold a stream.
InUse(e) == {i \in DOMAIN e.conns : e.conns[i].stream # 0}

\* C1: in every state of a running worker, the number of indices in id_pool
\* plus the number of slots holding a live socket equals capacity.
C1_FreePlusInUseIsCapacity ==
    \A w \in Workers :
        wpc[w] # "dead" =>
            Len(epoll[w].id_pool) + Cardinality(InUse(epoll[w])) = epoll[w].capacity

\* C2 (the part a finite run decides): a request that a worker has decoded on
\* a connection the client keeps open, and that is not yet answered in full,
\* sits in a slot with the socket still attached, in the Write state or, while
\* the worker is in do_work for it, still in Read with the whole request, so
\* that the response can still be written.
C2_DecodedRequestStaysAnswerable ==
    \A c \in Sockets :
        (peer[c] = "conn" /\ decoded[c] * RESPONSE_SIZE > Len(wrote[c])) =>
            \E w \in Workers : \E i \in DOMAIN epoll[w].conns :
                /\ epoll[w].conns[i].stream = c
                /\ \/ epoll[w].conns[i].action = "Write"
                   \/ wpc[w] = "work" /\ i \in AtWork(epoll[w])

\* C3 (the part a finite run decides): with one worker of capacity 1, the
\* server does not hang up on a client with a decoded request unanswered,
\* and a client queued in the channel while the worker waits is waiting
\* behind a live connection (so it is admitted once that one is released).
C3_SequentialClientsServed ==
    (capacity = 1 /\ n_threads = 1) =>
        \A c \in Sockets :
            /\ (peer[c] = "conn" /\ srv[c] = "closed"
                  => decoded[c] * RESPONSE_SIZE = Len(wrote[c]))
            /\ (\E k \in 1..Len(rx_conn) : rx_conn[k] = c) /\ wpc[1] = "wait"
                  => InUse(epoll[1]) # {}

\* C4: whenever a worker is inside Epoll::wait, at least one of its slots
\* holds a socket that is registered in the interest list.
C4_WaitHasRegisteredSocket ==
    \A w \in Workers :
        wpc[w] = "wait" =>
            \E x \in epoll[w].interest : \E i \in InUse(epoll[w]) :
                epoll[w].conns[i].stream = x.fd

\* C5: a request with a work tag outside {0,1,2} never ends the worker
\* thread (and with it the other connections the worker holds).
C5_WorkerSurvivesInvalidTag ==
    \A w \in Workers : wpc[w] # "dead"

(***************************************************************************)
(* Properties of the open-loop generator (SpecOpen, FairSpecOpen).         *)
(***************************************************************************)
\* C6: once the sender's elapsed time has reached runtime, the sender and
\* the receiver both eventually return (under FairSpecOpen).
C6_OpenLoopShutdownTerminates ==
    expired ~> (spc = "returned" /\ rpc = "returned")

\* C6 witness: both threads have returned and the receiver needed the
\* response to the final request to get out of its read.
C6_Witness ==
    /\ expired /\ spc = "returned" /\ rpc = "returned"
    /\ read_after_done = 1
    /\ Len(lrs) = written /\ written >= 2

\* C7: done is stored exactly once, by the first iteration that begins at or
\* after the deadline and before that iteration's request is written;
\* exactly one request is written after the store, then the sender returns.
C7_DoneStoredOnceBeforeLastSend ==
    /\ stores <= 1
    /\ done <=> stores = 1
    /\ done => expired
    /\ spc \in {"send", "count"} => (done <=> at_check)
    /\ sent_after_done <= 1
    /\ spc = "send" => sent_after_done = 0
    /\ spc = "count" /\ done => sent_after_done = 1
    /\ spc = "returned" => (done /\ sent_after_done = 1 /\ written = requests_sent + 1)

\* C7 witness: the sender has returned after some counted requests.
C7_Witness ==
    /\ spc = "returned" /\ requests_sent >= 2
    /\ stores = 1 /\ sent_after_done = 1

\* C8 as stated: the receiver reads exactly one response after done is set.
C8_ExactlyOneReadAfterDone ==
    rpc = "returned" => read_after_done = 1

\* C8 amended: after done is set the receiver reads at most one further
\* response (none when it loads done before its next read) and then exits.
C8_AtMostOneReadAfterDone ==
    /\ read_after_done <= 1
    /\ read_after_done = 1 => rpc # "read"
    /\ rpc = "returned" => done

\* C8 witness: the receiver has returned having read one response after done.
C8_Witness ==
    /\ rpc = "returned" /\ read_after_done = 1 /\ Len(lrs) >= 2

\* C9: when Config::run returns, the number of latency records does not
\* exceed requests_sent.
C9_RecordsAtMostRequestsSent ==
    open_pc = "returned" => Len(acc_lrs) <= acc_n_reqs

(***************************************************************************)
(* Properties of the closed-loop generator (SpecClosed).                   *)
(***************************************************************************)
RECURSIVE closed_total_sent(_)
\* Requests written by clients 1..n.
closed_total_sent(n) == IF n = 0 THEN 0 ELSE closed_total_sent(n - 1) + csent[n]

\* C10: at every loop head and at return a client has appended as many
\* records as it has sent requests, with at most one request outstanding in
\* between; the records returned by run number the requests sent in total.
C10_ClosedRecordsEqualRequests ==
    /\ \A i \in ClosedClients :
         /\ cpc[i] \in {"head", "returned"} => Len(latency_records[i]) = csent[i]
         /\ csent[i] - Len(latency_records[i]) \in {0, 1}
    /\ closed_pc = "returned" =>
         Len(closed_result) = closed_total_sent(closed_num_clients)

\* C10 witness: run has returned the records of two clients, one of which
\* sent two requests.
C10_Witness ==
    /\ closed_pc = "returned"
    /\ closed_num_clients >= 2
    /\ \E i \in ClosedClients : csent[i] >= 2
    /\ Len(closed_result) >= 3

(***************************************************************************)
(* protocol.rs: Response::to_latency_record, with utils.rs: get_time.      *)
(* get_time reads the wall clock (SystemTime::now), which may step in      *)
(* either direction between two readings: each call returns any value of   *)
(* Times.                                                                  *)
(***************************************************************************)
\* Largest wall-clock reading and largest client_send_time explored.
MaxTime == 5
Times == 0..MaxTime

\* One call of to_latency_record on the response in hand.
ToLatencyRecord ==
    /\ lat_pc = "call"
    /\ \E t1 \in Times, t2 \in Times :
         LET r == to_latency_record([client_send_time |-> lat_send], t1, t2) IN
         /\ lat_pc' = IF r.panic THEN "panicked" ELSE "returned"
         /\ lat_reads' = r.reads
         /\ lat_record' = r.record
    /\ UNCHANGED lat_send
    /\ UNCHANGED notLat

InitLatency ==
    /\ lat_pc = "call"
    /\ lat_send \in Times
    /\ lat_reads = <<>>
    /\ lat_record = [send_time |-> 0, recv_time |-> 0]
    /\ InitEpollIdle /\ InitOpenIdle /\ InitClosedIdle
    /\ InitRestIdle("lat")

NextLatency == ToLatencyRecord

SpecLatency == InitLatency /\ [][NextLatency]_vars

\* C11: every LatencyRecord that to_latency_record returns has
\* recv_time >= send_time, whatever the clock readings were; a receive time
\* earlier than the send time ends in a panic and not in a record.
C11_RecordRecvNotBeforeSend ==
    lat_pc = "returned" => lat_record.recv_time >= lat_record.send_time

(***************************************************************************)
(* threadpool.rs: the thread-pool server.  tp_size threads take accepted   *)
(* streams from an unbounded channel and run _handle_client on each, one   *)
(* connection at a time per thread.  The streams are blocking: a read      *)
(* returns when bytes have arrived or the peer has closed.  tpc is "recv"  *)
(* on the channel, "read" inside Request::deserialize (line 26), "work"    *)
(* inside Request::do_work (line 27), "write" before Response::serialize   *)
(* (line 38) and "exited" once the process has ended (main.rs, line 61).   *)
(* The peers are the TCP peers above; they may pipeline frames.            *)
(***************************************************************************)
\* Largest tp_size explored.
MaxTpSize == 2
\* Frames the peers of the thread-pool server may start, over all connections.
TpMaxReqs == 2

TpThreads == 1..tp_size

RECURSIVE TpStarted(_)
\* Frames started on connections 1..n.
TpStarted(n) == IF n = 0 THEN 0 ELSE TpStarted(n - 1) + nreq[n]

\* The server process runs: main has not returned.
ServerUp == \A t \in TpThreads : tpc[t] # "exited"

\* What a peer may write: a frame of each Work variant, a frame whose tag
\* names no variant, and a frame cut short after its send_time.
TpClientFrames ==
    { RequestSerialize([send_time |-> 258, work |-> WorkConstant]),
      RequestSerialize([send_time |-> 1000, work |-> WorkBusy(3)]),
      RequestSerialize([send_time |-> 77, work |-> WorkSleep(2)]),
      RawFrame(513, 3, 0),
      to_be_bytes(5) }

\* run, lines 16-18: accept a connecting peer and hand the closure that
\* serves it to the pool (ThreadPool::execute, lines 64-67).
TpAccept(c) ==
    /\ ServerUp
    /\ peer[c] = "idle"
    /\ peer' = [peer EXCEPT ![c] = "conn"]
    /\ srv' = [srv EXCEPT ![c] = "open"]
    /\ tp_chan' = Append(tp_chan, c)
    /\ UNCHANGED <<capacity, n_threads, max_events, rx_conn, epoll, events, wpc,
                   rxq, out, nreq, wrote, decoded>>
    /\ UNCHANGED <<tp_size, tpc, tp_stream, tp_req, tp_resp, tp_epipe, read_log>>
    /\ UNCHANGED notTp

\* A peer starts on a frame once its last one is written; the frame goes
\* out in the writes of ClientWrite (send_time, tag, payload).
TpClientSend(c) ==
    /\ peer[c] = "conn" /\ srv[c] = "open"
    /\ TpStarted(NSockets) < TpMaxReqs
    /\ out[c] = <<>>
    /\ \E f \in TpClientFrames : out' = [out EXCEPT ![c] = f]
    /\ nreq' = [nreq EXCEPT ![c] = @ + 1]
    /\ UNCHANGED <<capacity, n_threads, max_events, rx_conn, epoll, events, wpc,
                   peer, srv, rxq, wrote, decoded>>
    /\ UNCHANGED tpVars
    /\ UNCHANGED notTp

\* A pool thread that serves the next closure without taking it out of the
\* channel.
TpRecv_peek(t) ==
    /\ tpc[t] = "recv"
    /\ tp_chan # <<>>
    /\ tp_stream' = [tp_stream EXCEPT ![t] = Head(tp_chan)]
    /\ tpc' = [tpc EXCEPT ![t] = "read"]
    /\ UNCHANGED epollVars
    /\ UNCHANGED <<tp_size, tp_chan, tp_req, tp_resp, tp_epipe, read_log>>
    /\ UNCHANGED notTp

\* ThreadPool::spawn, lines 54-58: a pool thread takes the next closure from
\* the channel and enters _handle_client (line 22).
TpRecv(t) ==
    /\ tpc[t] = "recv"
    /\ tp_chan # <<>>
    /\ tp_stream' = [tp_stream EXCEPT ![t] = Head(tp_chan)]
    /\ tp_chan' = Tail(tp_chan)
    /\ tpc' = [tpc EXCEPT ![t] = "read"]
    /\ UNCHANGED epollVars
    /\ UNCHANGED <<tp_size, tp_req, tp_resp, tp_epipe, read_log>>
    /\ UNCHANGED notTp

\* Request::deserialize, protocol.rs lines 49, 154 and 158/163/170: the
\* bytes the current read_exact still asks for, given the bytes read so far
\* (8 bytes of send_time, 1 byte of tag, 8 bytes of payload).
TpNeed(buf) ==
    IF Len(buf) < 8 THEN 8 - Len(buf)
    ELSE IF Len(buf) = 8 THEN 1
    ELSE REQUEST_SIZE - Len(buf)

\* One read on the stream of thread t inside Request::deserialize: it takes
\* the bytes that have arrived, up to those asked for.  end is "eof" when
\* the read returns 0 bytes (read_exact fails with UnexpectedEof),
\* "invalid" when the tag just read names no variant (InvalidData),
\* "request" when the frame is complete and "more" when deserialize reads on.
TpReadOutcome(t) ==
    LET c == tp_stream[t]
        got == Min(TpNeed(tp_req[t]), Len(rxq[c]))
        buf == tp_req[t] \o SubSeq(rxq[c], 1, got)
        r == RequestDeserialize(buf, 0)
    IN  [got |-> got, buf |-> buf, req |-> r.req,
         end |-> IF got = 0 THEN "eof"
                 ELSE IF r.ok THEN "request"
                 ELSE IF r.err = "InvalidData" THEN "invalid"
                 ELSE "more"]

\* _handle_client, lines 26-35: one read of Request::deserialize.  The read
\* blocks while no byte has arrived and the peer has not closed; bytes that
\* arrived before the peer closed are still read.  On an error the loop is
\* left and the stream is dropped; with the frame complete the thread goes
\* on to do_work.
TpRead(t) ==
    LET c == tp_stream[t]
        o == TpReadOutcome(t)
    IN
    /\ tpc[t] = "read"
    /\ rxq[c] # <<>> \/ peer[c] = "closed"
    /\ rxq' = [rxq EXCEPT ![c] = SubSeq(@, o.got + 1, Len(@))]
    /\ CASE o.end = "request" ->
              /\ tp_req' = [tp_req EXCEPT ![t] = o.buf]
              /\ read_log' = [read_log EXCEPT ![c] = Append(@, o.req.send_time)]
              /\ decoded' = [decoded EXCEPT ![c] = @ + 1]
              /\ tpc' = [tpc EXCEPT ![t] = "work"]
              /\ UNCHANGED <<srv, tp_stream>>
         [] o.end = "more" ->
              /\ tp_req' = [tp_req EXCEPT ![t] = o.buf]
              /\ UNCHANGED <<srv, tp_stream, tpc, read_log, decoded>>
         [] OTHER ->
              /\ srv' = [srv EXCEPT ![c] = "closed"]
              /\ tp_stream' = [tp_stream EXCEPT ![t] = 0]
              /\ tp_req' = [tp_req EXCEPT ![t] = <<>>]
              /\ tpc' = [tpc EXCEPT ![t] = "recv"]
              /\ UNCHANGED <<read_log, decoded>>
    /\ UNCHANGED <<capacity, n_threads, max_events, rx_conn, epoll, events, wpc,
                   peer, out, nreq, wrote>>
    /\ UNCHANGED <<tp_size, tp_chan, tp_resp, tp_epipe>>
    /\ UNCHANGED notTp

\* _handle_client, line 27: Request::do_work returns (after the loop of
\* Work::Busy or the sleep of Work::Sleep) with the response.
TpWork(t) ==
    /\ tpc[t] = "work"
    /\ tp_resp' = [tp_resp EXCEPT ![t] = do_work(RequestDeserialize(tp_req[t], 0).req)]
    /\ tp_req' = [tp_req EXCEPT ![t] = <<>>]
    /\ tpc' = [tpc EXCEPT ![t] = "write"]
    /\ UNCHANGED epollVars
    /\ UNCHANGED <<tp_size, tp_chan, tp_stream, tp_epipe, read_log>>
    /\ UNCHANGED notTp

\* _handle_client, lines 38-40: Response::serialize on the stream; an error
\* is printed and the loop goes on.  The write can fail only once the peer
\* has closed, and after one failure every later write on the socket fails.
TpWrite(t) ==
    LET c == tp_stream[t] IN
    /\ tpc[t] = "write"
    /\ \E fails \in IF c \in tp_epipe THEN {TRUE}
                    ELSE IF peer[c] = "closed" THEN {TRUE, FALSE} ELSE {FALSE} :
         /\ wrote' = [wrote EXCEPT ![c] =
                        IF fails THEN @ ELSE @ \o ResponseSerialize(tp_resp[t])]
         /\ tp_epipe' = IF fails THEN tp_epipe \cup {c} ELSE tp_epipe
    /\ tpc' = [tpc EXCEPT ![t] = "read"]
    /\ UNCHANGED <<capacity, n_threads, max_events, rx_conn, epoll, events, wpc,
                   peer, srv, rxq, out, nreq, decoded>>
    /\ UNCHANGED <<tp_size, tp_chan, tp_stream, tp_req, tp_resp, read_log>>
    /\ UNCHANGED notTp

\* main.rs, lines 60-61: main has slept for the timeout and returns.  The
\* process ends: every pool thread stops where it is, and the listener, the
\* channel and every stream are closed.
TpExit ==
    /\ ServerUp
    /\ tpc' = [t \in TpThreads |-> "exited"]
    /\ tp_stream' = [t \in TpThreads |-> 0]
    /\ tp_req' = [t \in TpThreads |-> <<>>]
    /\ tp_chan' = <<>>
    /\ srv' = [c \in Sockets |-> IF srv[c] = "open" THEN "closed" ELSE srv[c]]
    /\ rxq' = [c \in Sockets |-> <<>>]
    /\ UNCHANGED <<capacity, n_threads, max_events, rx_conn, epoll, events, wpc,
                   peer, out, nreq, wrote, decoded>>
    /\ UNCHANGED <<tp_size, tp_resp, tp_epipe, read_log>>
    /\ UNCHANGED notTp

InitThreadPoolServer ==
    /\ tp_size \in 1..MaxTpSize
    /\ tp_chan = <<>>
    /\ tpc = [t \in 1..tp_size |-> "recv"]
    /\ tp_stream = [t \in 1..tp_size |-> 0]
    /\ tp_req = [t \in 1..tp_size |-> <<>>]
    /\ tp_resp = [t \in 1..tp_size |-> [client_send_time |-> 0]]
    /\ tp_epipe = {}
    /\ read_log = [c \in Sockets |-> <<>>]
    /\ capacity = 0 /\ n_threads = 0 /\ max_events = 0
    /\ rx_conn = <<>> /\ epoll = <<>> /\ events = <<>> /\ wpc = <<>>
    /\ peer = [c \in Sockets |-> "idle"]
    /\ srv = [c \in Sockets |-> "none"]
    /\ rxq = [c \in Sockets |-> <<>>]
    /\ out = [c \in Sockets |-> <<>>]
    /\ nreq = [c \in Sockets |-> 0]
    /\ wrote = [c \in Sockets |-> <<>>]
    /\ decoded = [c \in Sockets |-> 0]
    /\ InitOpenIdle /\ InitClosedIdle
    /\ InitRestIdle("tp")

NextThreadPoolServer ==
    \/ \E c \in Sockets : TpAccept(c)
    \/ \E c \in Sockets : TpClientSend(c)
    \/ \E c \in Sockets : ClientWrite(c)
    \/ \E c \in Sockets : ClientClose(c)
    \/ \E t \in TpThreads : TpRecv(t)
    \/ \E t \in TpThreads : TpRead(t)
    \/ \E t \in TpThreads : TpWork(t)
    \/ \E t \in TpThreads : TpWrite(t)
    \/ TpExit

SpecThreadPoolServer == InitThreadPoolServer /\ [][NextThreadPoolServer]_vars

(***************************************************************************)
(* Properties of the thread-pool server (SpecThreadPoolServer).            *)
(***************************************************************************)
\* C12: on every connection of the thread-pool server the bytes written are
\* whole 8-byte responses, and the k-th of them is the big-endian send_time
\* of the k-th request read on that connection.
C12_ResponsesEchoRequestsInOrder ==
    \A c \in Sockets :
        /\ Len(wrote[c]) % RESPONSE_SIZE = 0
        /\ Len(wrote[c]) <= RESPONSE_SIZE * Len(read_log[c])
        /\ \A k \in 1..(Len(wrote[c]) \div RESPONSE_SIZE) :
             from_be_bytes(SubSeq(wrote[c], RESPONSE_SIZE * (k - 1) + 1,
                                  RESPONSE_SIZE * k)) = read_log[c][k]

\* C12 witness: two responses written on one connection, to two requests
\* with different send_time values.
C12_Witness ==
    \E c \in Sockets :
        /\ Len(wrote[c]) = 2 * RESPONSE_SIZE
        /\ Len(read_log[c]) = 2
        /\ read_log[c][1] # read_log[c][2]

\* C13: requests and responses alternate on every connection: no more
\* responses are started than requests were completely read, and request
\* k+1 is not read before response k is completely written.
C13_RequestsAndResponsesAlternate ==
    \A c \in Sockets :
        /\ Len(wrote[c]) <= RESPONSE_SIZE * decoded[c]
        /\ RESPONSE_SIZE * (decoded[c] - 1) <= Len(wrote[c])

(***************************************************************************)
(* protocol.rs: the codec on its own.  A Request or a Response is          *)
(* serialized into an empty buffer, or a raw 17-byte frame with an         *)
(* arbitrary tag byte is built, and the buffer is deserialized from its    *)
(* start.  (u64 values are kept below 2^31.)                               *)
(***************************************************************************)
\* The values of a byte.
Bytes == 0..255

\* The u64 values explored for send_time, amt, micros and client_send_time.
CodecValues == {0, 1, 255, 256, 258, 65535, 16777217, 2147483647}

CodecWorks ==
    {WorkConstant} \cup {WorkBusy(v) : v \in CodecValues}
                   \cup {WorkSleep(v) : v \in CodecValues}

\* Request::serialize into an empty buffer.
CodecEncodeRequest ==
    /\ codec_pc = "idle"
    /\ \E t \in CodecValues, w \in CodecWorks :
         LET req == [send_time |-> t, work |-> w] IN
         /\ codec_in' = [kind |-> "request", req |-> req]
         /\ codec_buf' = RequestSerialize(req)
    /\ codec_pc' = "encoded"
    /\ UNCHANGED codec_out
    /\ UNCHANGED notCodec

\* Response::serialize into an empty buffer.
CodecEncodeResponse ==
    /\ codec_pc = "idle"
    /\ \E t \in CodecValues :
         LET resp == [client_send_time |-> t] IN
         /\ codec_in' = [kind |-> "response", resp |-> resp]
         /\ codec_buf' = ResponseSerialize(resp)
    /\ codec_pc' = "encoded"
    /\ UNCHANGED codec_out
    /\ UNCHANGED notCodec

\* A 17-byte input with any tag byte at offset 8.
CodecRawFrame ==
    /\ codec_pc = "idle"
    /\ \E t \in {0, 258}, tag \in Bytes, p \in {0, 16777217} :
         /\ codec_in' = [kind |-> "raw", send_time |-> t, tag |-> tag, payload |-> p]
         /\ codec_buf' = RawFrame(t, tag, p)
    /\ codec_pc' = "encoded"
    /\ UNCHANGED codec_out
    /\ UNCHANGED notCodec

\* Request::deserialize from the start of the buffer.
CodecDecodeRequest ==
    /\ codec_pc = "encoded"
    /\ codec_in.kind \in {"request", "raw"}
    /\ codec_out' = RequestDeserialize(codec_buf, 0)
    /\ codec_pc' = "decoded"
    /\ UNCHANGED <<codec_in, codec_buf>>
    /\ UNCHANGED notCodec

\* Response::deserialize from the start of the buffer.
CodecDecodeResponse ==
    /\ codec_pc = "encoded"
    /\ codec_in.kind = "response"
    /\ codec_out' = ResponseDeserialize(codec_buf, 0)
    /\ codec_pc' = "decoded"
    /\ UNCHANGED <<codec_in, codec_buf>>
    /\ UNCHANGED notCodec

InitCodec ==
    /\ codec_pc = "idle" /\ codec_in = [kind |-> "none"]
    /\ codec_buf = <<>> /\ codec_out = [ok |-> FALSE]
    /\ InitEpollIdle /\ InitOpenIdle /\ InitClosedIdle
    /\ InitRestIdle("codec")

NextCodec ==
    \/ CodecEncodeRequest
    \/ CodecEncodeResponse
    \/ CodecRawFrame
    \/ CodecDecodeRequest
    \/ CodecDecodeResponse

SpecCodec == InitCodec /\ [][NextCodec]_vars

\* C14: deserializing the bytes of a serialized Request gives back the same
\* send_time, Work variant and payload, and deserializing the bytes of a
\* serialized Response gives back the same client_send_time.
C14_CodecRoundTrip ==
    codec_pc = "decoded" =>
        /\ codec_in.kind = "request" =>
             /\ codec_out.ok
             /\ codec_out.req = codec_in.req
             /\ codec_out.pos = REQUEST_SIZE /\ Len(codec_buf) = REQUEST_SIZE
        /\ codec_in.kind = "response" =>
             /\ codec_out.ok
             /\ codec_out.resp = codec_in.resp
             /\ codec_out.pos = RESPONSE_SIZE /\ Len(codec_buf) = RESPONSE_SIZE

\* C14 witness: a Sleep request with multi-byte send_time and micros has
\* gone through serialize and deserialize.
C14_Witness ==
    /\ codec_pc = "decoded"
    /\ codec_in.kind = "request"
    /\ codec_in.req = [send_time |-> 16777217, work |-> WorkSleep(65535)]
    /\ codec_out.ok /\ codec_out.req.work.kind = "Sleep"

\* C15: deserializing a request from 17 bytes whose tag byte is outside
\* {0, 1, 2} returns an InvalidData error, for every send_time and payload.
C15_InvalidTagRejected ==
    (codec_pc = "decoded" /\ codec_in.kind = "raw" /\ codec_in.tag \notin {0, 1, 2})
        => (~codec_out.ok /\ codec_out.err = "InvalidData")

\* C15 witness: a 17-byte frame with tag 255 and a non-zero payload has been
\* rejected.
C15_Witness ==
    /\ codec_pc = "decoded"
    /\ codec_in.kind = "raw" /\ codec_in.tag = 255 /\ codec_in.payload # 0
    /\ Len(codec_buf) = REQUEST_SIZE
    /\ ~codec_out.ok /\ codec_out.err = "InvalidData"

(***************************************************************************)
(* closed_loop.rs: the pacing of one client.  Time is the monotonic clock  *)
(* in ticks since client_start; an exchange (send, then the blocking read  *)
(* of the response) takes pace_service ticks, the busy loop takes exactly  *)
(* busy_wait_time ticks, and everything else takes no time.                *)
(***************************************************************************)
\* Largest delay, service time and runtime explored, in ticks.
MaxDelay == 3
MaxService == 3
MaxRuntime == 6
\* Iterations of one client explored.
MaxPaceIters == 4

\* _run_client, lines 76-79: the excess-time carry, given the excess carried
\* in and start.elapsed().
excess_carry_unclamped(excess, elapsed, delay) ==
    LET total == excess + elapsed IN
    [busy_wait_time |-> delay - total, excess_duration |-> 0]

excess_carry(excess, elapsed, delay) ==
    LET total == excess + elapsed
        excess_delay == IF total <= delay THEN total ELSE delay
    IN  [busy_wait_time |-> delay - excess_delay,
         excess_duration |-> total - excess_delay]

\* Line 60: the loop condition.
PaceHead ==
    /\ pace_pc = "head"
    /\ pace_iters < MaxPaceIters
    /\ pace_pc' = IF pace_now < pace_runtime THEN "exchange" ELSE "returned"
    /\ UNCHANGED <<pace_delay, pace_runtime, pace_service, pace_now, pace_start,
                   excess_duration, busy_wait_time, pace_iters, pace_sent>>
    /\ UNCHANGED notPace

\* Lines 61-73: start is taken, the request is sent and the response read.
PaceExchange ==
    /\ pace_pc = "exchange"
    /\ pace_start' = pace_now
    /\ pace_now' = pace_now + pace_service
    /\ pace_pc' = "pace"
    /\ pace_sent' = pace_sent + 1
    /\ UNCHANGED <<pace_delay, pace_runtime, pace_service, excess_duration,
                   busy_wait_time, pace_iters>>
    /\ UNCHANGED notPace

\* Lines 76-85: the excess-time carry and the busy loop.
PaceWait ==
    LET r == excess_carry(excess_duration, pace_now - pace_start, pace_delay) IN
    /\ pace_pc = "pace"
    /\ busy_wait_time' = r.busy_wait_time
    /\ excess_duration' = r.excess_duration
    /\ pace_now' = pace_now + r.busy_wait_time
    /\ pace_iters' = pace_iters + 1
    /\ pace_pc' = "head"
    /\ UNCHANGED <<pace_delay, pace_runtime, pace_service, pace_start, pace_sent>>
    /\ UNCHANGED notPace

InitPacing ==
    /\ pace_delay \in 0..MaxDelay
    /\ pace_service \in 0..MaxService
    /\ pace_runtime \in 0..MaxRuntime
    /\ pace_pc = "head" /\ pace_now = 0 /\ pace_start = 0
    /\ excess_duration = 0 /\ busy_wait_time = 0 /\ pace_iters = 0
    /\ pace_sent = 0
    /\ InitEpollIdle /\ InitOpenIdle /\ InitClosedIdle
    /\ InitRestIdle("pace")

NextPacing ==
    \/ PaceHead
    \/ PaceExchange
    \/ PaceWait

SpecPacing == InitPacing /\ [][NextPacing]_vars

\* C16: with a constant service time and no overrun carried in, every
\* iteration of a closed-loop client busy-waits for the full delay, so that
\* after K iterations K * (service time + delay) has elapsed.
C16_PauseIsTheDelay ==
    (pace_pc = "head" /\ pace_iters > 0) =>
        /\ busy_wait_time = pace_delay
        /\ pace_now = pace_iters * (pace_service + pace_delay)

(***************************************************************************)
(* partial_open_loop.rs: ThreadPool.  One driver thread calls execute      *)
(* (&mut self); the session threads it spawns share the tasks channel and  *)
(* the atomic counter ready.  Dropping the pool drops the sending end of   *)
(* the channel; a session thread's iterator then still yields the tasks    *)
(* left in the channel and ends when the channel is empty.                 *)
(* The counter is an AtomicU64: a fetch_sub on 0 wraps to 2^64 - 1, which  *)
(* the model shows as -1 (the same bits read as a signed number).          *)
(***************************************************************************)
\* Largest capacity explored (ThreadPool::new takes any usize, 0 included).
MaxPoolCapacity == 2
\* Calls of execute explored.
MaxTasks == 3

SessThreads == 1..Len(sess_pc)

\* A fetch_add whose increment is lost.
fetch_add_lost(v) == v

\* AtomicU64::fetch_add(1) and fetch_sub(1): the new value.
fetch_add(v) == v + 1
fetch_sub(v) == v - 1

\* A test that spawns whenever no thread is ready.
should_spawn_uncapped(ready_seen, sz, cap) == ready_seen = 0

\* execute, line 161: the test that guards the spawn.
should_spawn(ready_seen, sz, cap) == ready_seen = 0 /\ sz < cap

\* A receive that ends the iterator as soon as the sending end is gone.
chan_recv_hasty(chan, alive) ==
    IF ~alive THEN [kind |-> "disconnected", task |-> 0, rest |-> chan]
    ELSE IF chan # <<>> THEN [kind |-> "task", task |-> Head(chan), rest |-> Tail(chan)]
    ELSE [kind |-> "block", task |-> 0, rest |-> chan]

\* The iterator of a crossbeam Receiver (line 169): the next task, or the
\* end of the iteration when the channel is empty and disconnected, or
\* blocking.
chan_recv(chan, alive) ==
    IF chan # <<>> THEN [kind |-> "task", task |-> Head(chan), rest |-> Tail(chan)]
    ELSE IF ~alive THEN [kind |-> "disconnected", task |-> 0, rest |-> chan]
    ELSE [kind |-> "block", task |-> 0, rest |-> chan]

\* execute, line 161: load ready and test size against capacity.
ExecuteLoad ==
    /\ exec_pc = "idle"
    /\ Len(runs) < MaxTasks
    /\ exec_ready' = pool_ready
    /\ exec_pc' = IF should_spawn(pool_ready, pool_size, pool_capacity) THEN "spawn" ELSE "send"
    /\ UNCHANGED <<pool_capacity, pool_size, pool_ready, pool_chan, tx_alive, sess_pc,
                   sess_task, runs, left_at_drop>>
    /\ UNCHANGED notPool

\* execute, lines 162-174: count the new thread in size and in ready, and
\* spawn it; it starts in its receive loop.
ExecuteSpawn ==
    /\ exec_pc = "spawn"
    /\ pool_size' = pool_size + 1
    /\ pool_ready' = fetch_add(pool_ready)
    /\ sess_pc' = Append(sess_pc, "recv")
    /\ sess_task' = Append(sess_task, 0)
    /\ exec_pc' = "send"
    /\ UNCHANGED <<pool_capacity, pool_chan, tx_alive, exec_ready, runs, left_at_drop>>
    /\ UNCHANGED notPool

\* execute, lines 178-179: send the task down the channel.
ExecuteSend ==
    /\ exec_pc = "send"
    /\ pool_chan' = Append(pool_chan, Len(runs) + 1)
    /\ runs' = Append(runs, 0)
    /\ exec_pc' = "idle"
    /\ UNCHANGED <<pool_capacity, pool_size, pool_ready, tx_alive, exec_ready, sess_pc,
                   sess_task, left_at_drop>>
    /\ UNCHANGED notPool

\* The driver drops the pool, and with it the sending end of the channel.
DropPool ==
    /\ exec_pc = "idle"
    /\ tx_alive' = FALSE
    /\ exec_pc' = "dropped"
    /\ left_at_drop' = Len(pool_chan)
    /\ UNCHANGED <<pool_capacity, pool_size, pool_ready, pool_chan, exec_ready, sess_pc,
                   sess_task, runs>>
    /\ UNCHANGED notPool

\* Session thread, line 169: the iterator yields a task or ends.
SessRecv(t) ==
    LET r == chan_recv(pool_chan, tx_alive) IN
    /\ sess_pc[t] = "recv"
    /\ r.kind # "block"
    /\ pool_chan' = r.rest
    /\ sess_task' = [sess_task EXCEPT ![t] = r.task]
    /\ sess_pc' = [sess_pc EXCEPT ![t] = IF r.kind = "task" THEN "sub" ELSE "exited"]
    /\ UNCHANGED <<pool_capacity, pool_size, pool_ready, tx_alive, exec_pc, exec_ready,
                   runs, left_at_drop>>
    /\ UNCHANGED notPool

\* Session thread, line 170: ready.fetch_sub(1).
SessSub(t) ==
    /\ sess_pc[t] = "sub"
    /\ pool_ready' = fetch_sub(pool_ready)
    /\ sess_pc' = [sess_pc EXCEPT ![t] = "run"]
    /\ UNCHANGED <<pool_capacity, pool_size, pool_chan, tx_alive, exec_pc, exec_ready,
                   sess_task, runs, left_at_drop>>
    /\ UNCHANGED notPool

\* Session thread, line 171: f() runs and returns.
SessRun(t) ==
    /\ sess_pc[t] = "run"
    /\ runs' = [runs EXCEPT ![sess_task[t]] = @ + 1]
    /\ sess_pc' = [sess_pc EXCEPT ![t] = "add"]
    /\ UNCHANGED <<pool_capacity, pool_size, pool_ready, pool_chan, tx_alive, exec_pc,
                   exec_ready, sess_task, left_at_drop>>
    /\ UNCHANGED notPool

\* Session thread, line 172: ready.fetch_add(1), then back to the iterator.
SessAdd(t) ==
    /\ sess_pc[t] = "add"
    /\ pool_ready' = fetch_add(pool_ready)
    /\ sess_task' = [sess_task EXCEPT ![t] = 0]
    /\ sess_pc' = [sess_pc EXCEPT ![t] = "recv"]
    /\ UNCHANGED <<pool_capacity, pool_size, pool_chan, tx_alive, exec_pc, exec_ready,
                   runs, left_at_drop>>
    /\ UNCHANGED notPool

\* ThreadPool::new, for any capacity: with capacity 0 execute never spawns.
InitPool ==
    /\ pool_capacity \in 0..MaxPoolCapacity
    /\ pool_size = 0 /\ pool_ready = 0 /\ pool_chan = <<>>
    /\ tx_alive = TRUE /\ exec_pc = "idle" /\ exec_ready = 0
    /\ sess_pc = <<>> /\ sess_task = <<>> /\ runs = <<>> /\ left_at_drop = 0
    /\ InitEpollIdle /\ InitOpenIdle /\ InitClosedIdle
    /\ InitRestIdle("pool")

NextPool ==
    \/ ExecuteLoad
    \/ ExecuteSpawn
    \/ ExecuteSend
    \/ DropPool
    \/ \E t \in SessThreads : SessRecv(t)
    \/ \E t \in SessThreads : SessSub(t)
    \/ \E t \in SessThreads : SessRun(t)
    \/ \E t \in SessThreads : SessAdd(t)

SpecPool == InitPool /\ [][NextPool]_vars

\* The session threads are scheduled and the tasks return.
FairSpecPool ==
    /\ SpecPool
    /\ \A t \in 1..MaxPoolCapacity :
         /\ WF_vars(t \in SessThreads /\ SessRecv(t))
         /\ WF_vars(t \in SessThreads /\ SessSub(t))
         /\ WF_vars(t \in SessThreads /\ SessRun(t))
         /\ WF_vars(t \in SessThreads /\ SessAdd(t))

(***************************************************************************)
(* Properties of the partial-open-loop thread pool (SpecPool).             *)
(***************************************************************************)
\* Session threads between their fetch_sub and their fetch_add.
Executing == {t \in SessThreads : sess_pc[t] \in {"run", "add"}}

\* C17: size never exceeds capacity, every thread spawned is counted in
\* size, and size grows only by one, in an execute call that has observed
\* ready = 0 while size < capacity.
C17_SizeWithinCapacity ==
    [][ /\ pool_size' <= pool_capacity'
        /\ Len(sess_pc') = pool_size'
        /\ pool_size' # pool_size =>
             /\ pool_size' = pool_size + 1
             /\ exec_pc = "spawn" /\ exec_ready = 0
             /\ pool_size < pool_capacity ]_vars

\* C17 witness: the pool is at a capacity of two threads and a later
\* execute, which found no thread ready, has sent its task without spawning.
C17_Witness ==
    /\ pool_capacity = 2 /\ pool_size = 2
    /\ exec_pc = "send" /\ exec_ready = 0
    /\ Len(runs) = 2

\* C18: ready is the number of spawned session threads that are not between
\* their decrement and their increment; it stays within 0..size (the
\* unsigned counter never wraps).
C18_ReadyCountsIdleThreads ==
    /\ pool_ready = pool_size - Cardinality(Executing)
    /\ 0 <= pool_ready /\ pool_ready <= pool_size

\* C18 witness: two threads spawned, both executing, ready back at 0, and
\* one thread has already gone through a whole decrement-run-increment.
C18_Witness ==
    /\ pool_size = 2 /\ pool_ready = 0
    /\ Cardinality(Executing) = 2
    /\ \E k \in 1..Len(runs) : runs[k] = 1 /\ \A t \in SessThreads : sess_task[t] # k

\* Every session thread has left its loop and every task sent was run once.
PoolDrained ==
    /\ \A t \in SessThreads : sess_pc[t] = "exited"
    /\ \A k \in 1..Len(runs) : runs[k] = 1

\* Every session thread has left its loop; every task sent was run once by
\* a pool that can hold a thread, and none was run by a pool of capacity 0.
PoolDrainedIfAnyThread ==
    /\ \A t \in SessThreads : sess_pc[t] = "exited"
    /\ pool_capacity >= 1 => \A k \in 1..Len(runs) : runs[k] = 1
    /\ pool_capacity = 0 => (pool_size = 0 /\ \A k \in 1..Len(runs) : runs[k] = 0)

\* C19 as stated: no task is ever run twice, and once the sending end of the
\* channel is dropped every session thread eventually terminates, with every
\* task sent before the drop run exactly once.
C19_DropDrainsThePool ==
    /\ [](\A k \in 1..Len(runs) : runs[k] <= 1)
    /\ (~tx_alive /\ exec_pc = "dropped") ~> PoolDrained

\* C19, amended: no task is ever run twice, and once the sending end of the
\* channel is dropped every session thread eventually terminates, with every
\* task sent before the drop run exactly once if the capacity is at least 1;
\* a pool of capacity 0 spawns no thread and runs none of its tasks.
C19_DropDrainsAPoolWithThreads ==
    /\ [](\A k \in 1..Len(runs) : runs[k] <= 1)
    /\ (~tx_alive /\ exec_pc = "dropped") ~> PoolDrainedIfAnyThread

\* C19 witness: the pool was dropped with tasks still in the channel, two
\* threads have terminated and all three tasks were run once.
C19_Witness ==
    /\ exec_pc = "dropped" /\ left_at_drop >= 2
    /\ pool_size = 2 /\ Len(runs) = 3
    /\ PoolDrained

(***************************************************************************)
(* Properties of the epoll server on a disconnect (SpecEpoll).             *)
(***************************************************************************)
\* Every slot of e is reset and its index is in the free list, once.
AllSlotsFree(e) ==
    /\ \A id \in DOMAIN e.conns :
         /\ e.conns[id].stream = 0
         /\ e.conns[id].idx = 0
         /\ e.conns[id].action = "Read"
         /\ Cardinality({i \in 1..Len(e.id_pool) : e.id_pool[i] = id}) = 1
    /\ e.interest = {}

\* C20: a disconnect of the client frees the slot, in the Read and in the
\* Write phase: once every client that connected has disconnected and a
\* running worker holds no socket any more, all slots of the worker are
\* reset (no socket, idx = 0, Read), unregistered and in the free list
\* exactly once.
C20_DisconnectFreesSlot ==
    \A w \in Workers :
        (/\ wpc[w] # "dead"
         /\ \A c \in Sockets : peer[c] \in {"idle", "closed"}
         /\ Held(epoll[w]) = {})
        => AllSlotsFree(epoll[w])

(***************************************************************************)
(* Further properties of the epoll server (SpecEpoll).                     *)
(***************************************************************************)
\* The indices in the free list of e, and the registrations of slot id.
FreeIds(e) == {e.id_pool[i] : i \in 1..Len(e.id_pool)}
Registrations(e, id) == {x \in e.interest : x.data = id}

\* C21: when a worker is in its readiness wait, every slot that is not free
\* has exactly one registration, for its own socket, readable while the slot
\* is in Read and writable while it is in Write, and no free slot has one.
C21_InterestMatchesAction ==
    \A w \in Workers :
        wpc[w] = "wait" =>
            \A id \in DOMAIN epoll[w].conns :
                LET e == epoll[w]
                    conn == e.conns[id]
                IN  IF id \in FreeIds(e)
                    THEN Registrations(e, id) = {}
                    ELSE Registrations(e, id) =
                           {[fd |-> conn.stream, data |-> id,
                             flags |-> IF conn.action = "Read" THEN "EPOLLIN"
                                       ELSE "EPOLLOUT"]}

\* The size of the half-transaction a slot is in.
HalfSize(conn) == IF conn.action = "Read" THEN REQUEST_SIZE ELSE RESPONSE_SIZE

\* C22: in every step, afterwards every slot has 0 <= idx <= SIZE (17 in
\* Read, 8 in Write) and a buffer of that size; idx does not decrease while
\* the slot stays with the same socket in the same phase; and idx is 0 after
\* a flip between Read and Write and in every slot of the free list.
C22_IdxWithinHalfTransaction ==
    [][ \A w \in Workers : \A id \in DOMAIN epoll[w].conns :
          LET old == epoll[w].conns[id]
              new == epoll'[w].conns[id]
          IN  /\ 0 <= new.idx /\ new.idx <= HalfSize(new)
              /\ Len(new.buf) = HalfSize(new)
              /\ (new.stream = old.stream /\ new.stream # 0 /\ new.action = old.action)
                    => new.idx >= old.idx
              /\ new.action # old.action => new.idx = 0
              /\ id \in FreeIds(epoll'[w]) => new.idx = 0 ]_vars

\* C22 witness: a slot whose read has stopped inside the frame twice, after
\* the send_time and after the tag byte, with its socket still attached.
C22_Witness ==
    \E w \in Workers : \E id \in DOMAIN epoll[w].conns :
        /\ epoll[w].conns[id].stream # 0
        /\ epoll[w].conns[id].action = "Read"
        /\ epoll[w].conns[id].idx = 9
        /\ wpc[w] = "wait"

\* C23: when a worker handles the event of a slot and copy_until_blocked
\* returns WouldBlock, the slot keeps its action and its socket, the interest
\* list and the free list are unchanged, the socket stays open, and the slot
\* holds the bytes it had plus the bytes just read, with idx advanced by their
\* number.
C23_WouldBlockKeepsProgress ==
    [][ \A w \in Workers : \A id \in events[w] :
          LET e == epoll[w]
              old == e.conns[id]
              new == epoll'[w].conns[id]
              fd == old.stream
              io == [avail |-> rxq[fd], eof |-> peer[fd] = "closed",
                     room |-> 0, broken |-> peer[fd] = "closed"]
              r == copy_until_blocked(old, io)
          IN  ( /\ wpc[w] = "service"
                /\ events'[w] = events[w] \ {id}
                /\ fd # 0
                /\ old.action = "Read"
                /\ r.res = "WouldBlock" )
              => /\ new.action = old.action
                 /\ new.stream = fd
                 /\ epoll'[w].interest = e.interest
                 /\ epoll'[w].id_pool = e.id_pool
                 /\ srv'[fd] = srv[fd]
                 /\ wpc'[w] # "dead"
                 /\ new.idx = old.idx + r.n
                 /\ SubSeq(new.buf, 1, new.idx) =
                      SubSeq(old.buf, 1, old.idx) \o SubSeq(rxq[fd], 1, r.n) ]_vars

\* C23 witness: a worker has finished its events and one of its slots was left
\* with part of a request, its socket open and nothing more to read.
C23_Witness ==
    \E w \in Workers : \E id \in DOMAIN epoll[w].conns :
        LET conn == epoll[w].conns[id] IN
        /\ wpc[w] = "admit"
        /\ conn.stream # 0
        /\ conn.action = "Read"
        /\ conn.idx = 8
        /\ SubSeq(conn.buf, 1, 8) = to_be_bytes(1000)
        /\ rxq[conn.stream] = <<>>
        /\ srv[conn.stream] = "open"
        /\ Registrations(epoll[w], id) # {}

\* The slots of all workers, as pairs of worker and index.
AllSlots == {p \in Workers \X (0..(capacity - 1)) : p[2] \in DOMAIN epoll[p[1]].conns}

\* C24: no socket is held by two slots of any workers or is both held and
\* still queued for the workers, no socket is queued twice, no index appears
\* twice in a free list, and no index of a free list holds a socket.
C24_SocketsAndIndicesUnshared ==
    /\ \A p, q \in AllSlots :
          (p # q /\ epoll[p[1]].conns[p[2]].stream # 0)
             => epoll[p[1]].conns[p[2]].stream # epoll[q[1]].conns[q[2]].stream
    /\ \A p \in AllSlots : \A k \in 1..Len(rx_conn) :
          rx_conn[k] # epoll[p[1]].conns[p[2]].stream
    /\ \A j, k \in 1..Len(rx_conn) : j # k => rx_conn[j] # rx_conn[k]
    /\ \A w \in Workers :
          /\ \A j, k \in 1..Len(epoll[w].id_pool) :
                j # k => epoll[w].id_pool[j] # epoll[w].id_pool[k]
          /\ FreeIds(epoll[w]) \cap InUse(epoll[w]) = {}

\* C24 witness: two accepted sockets are held at once, each by one slot, and
\* neither slot is in a free list.
C24_Witness ==
    \E p, q \in AllSlots :
        /\ p # q
        /\ epoll[p[1]].conns[p[2]].stream = 1
        /\ epoll[q[1]].conns[q[2]].stream = 2
        /\ p[2] \notin FreeIds(epoll[p[1]])
        /\ q[2] \notin FreeIds(epoll[q[1]])
        /\ rx_conn = <<>>

\* C25: a slot in the Write phase has a buffer of RESPONSE_SIZE bytes; at the
\* flip from Read to Write the request bytes of the slot decode, and the
\* buffer becomes the encoded Response of do_work for that request, which is
\* the big-endian send_time of the request; and the buffer is unchanged for
\* as long as the slot stays in Write.
C25_WriteBufferIsTheResponse ==
    [][ \A w \in Workers : \A id \in DOMAIN epoll[w].conns :
          LET old == epoll[w].conns[id]
              new == epoll'[w].conns[id]
              fd == old.stream
              frame == SubSeq(old.buf, 1, old.idx)
                          \o SubSeq(rxq[fd], 1, REQUEST_SIZE - old.idx)
              d == RequestDeserialize(frame, 0)
          IN  /\ new.action = "Write" => Len(new.buf) = RESPONSE_SIZE
              /\ (old.action = "Read" /\ new.action = "Write")
                    => /\ d.ok
                       /\ new.buf = ResponseSerialize(do_work(d.req))
                       /\ new.buf = to_be_bytes(d.req.send_time)
              /\ (old.action = "Write" /\ new.action = "Write")
                    => new.buf = old.buf ]_vars

\* C25 witness: a slot is in Write after the request with send_time 1000 and
\* busy work, which was read in three parts, and holds the encoding of 1000.
C25_Witness ==
    \E w \in Workers : \E id \in DOMAIN epoll[w].conns :
        /\ epoll[w].conns[id].action = "Write"
        /\ epoll[w].conns[id].buf = <<0, 0, 0, 0, 0, 0, 3, 232>>
        /\ \E c \in Sockets : decoded[c] = 1

(* The pacing loop with exchanges of any duration (SpecCarry). *)
\* closed_loop.rs lines 61-73 (open_loop.rs lines 86-106): start is taken and
\* one request is sent; the time until the carry is computed is whatever the
\* network and the server make it.
PaceExchangeAny ==
    /\ pace_pc = "exchange"
    /\ \E elapsed \in 0..MaxService :
          /\ pace_start' = pace_now
          /\ pace_now' = pace_now + elapsed
    /\ pace_pc' = "pace"
    /\ pace_sent' = pace_sent + 1
    /\ UNCHANGED <<pace_delay, pace_runtime, pace_service, excess_duration,
                   busy_wait_time, pace_iters>>
    /\ UNCHANGED notPace

InitCarry ==
    /\ pace_delay \in 0..MaxDelay
    /\ pace_service = 0
    /\ pace_runtime \in 1..MaxRuntime
    /\ pace_pc = "head" /\ pace_now = 0 /\ pace_start = 0
    /\ excess_duration = 0 /\ busy_wait_time = 0 /\ pace_iters = 0
    /\ pace_sent = 0
    /\ InitEpollIdle /\ InitOpenIdle /\ InitClosedIdle
    /\ InitRestIdle("pace")

NextCarry == PaceHead \/ PaceExchangeAny \/ PaceWait

SpecCarry == InitCarry /\ [][NextCarry]_vars

\* C26: in every pass through the carry, with total the carried excess plus
\* the time elapsed since start: the minimum taken is at most delay and at
\* most total, busy_wait_time is delay minus that minimum and lies in
\* 0..delay, excess_duration is total minus that minimum and is not negative,
\* a positive excess_duration afterwards means busy_wait_time is 0, and the
\* number of requests sent equals the number of iterations completed.
C26_CarryIsClamped ==
    [][ (pace_pc = "pace" /\ pace_pc' = "head") =>
          LET total == excess_duration + (pace_now - pace_start)
              m == Min(total, pace_delay)
          IN  /\ excess_duration >= 0 /\ pace_now - pace_start >= 0
              /\ m <= pace_delay /\ m <= total
              /\ busy_wait_time' = pace_delay - m
              /\ busy_wait_time' >= 0 /\ busy_wait_time' <= pace_delay
              /\ excess_duration' = total - m
              /\ excess_duration' >= 0
              /\ (excess_duration' > 0 => busy_wait_time' = 0)
              /\ pace_sent = pace_iters + 1
              /\ pace_sent' = pace_iters' ]_vars

\* C26 witness: an iteration whose exchange took no time still paused for
\* only 1 of its delay of 2, because an excess of 1 was carried into it, and
\* the excess is now spent.
C26_Witness ==
    /\ pace_pc = "head"
    /\ pace_delay = 2
    /\ busy_wait_time = 1
    /\ pace_now - pace_start = 1
    /\ excess_duration = 0
    /\ pace_iters >= 2
    /\ pace_sent = pace_iters

(* Further properties of the codec (SpecCodec). *)
\* C27: Request::deserialize on a 17-byte input leaves the input 17 bytes
\* further, whatever the tag byte and whether it succeeds or fails with
\* InvalidData, and Response::deserialize leaves an 8-byte input 8 bytes
\* further.
C27_DecodeConsumesWholeFrame ==
    codec_pc = "decoded" =>
        /\ (codec_in.kind \in {"request", "raw"} /\ Len(codec_buf) = REQUEST_SIZE)
              => codec_out.pos = REQUEST_SIZE
        /\ (codec_in.kind = "response" /\ Len(codec_buf) = RESPONSE_SIZE)
              => codec_out.pos = RESPONSE_SIZE

(* Further properties of the partial-open-loop thread pool (SpecPool). *)
\* The session threads that hold no task: they wait on the channel.
Waiting == {t \in SessThreads : sess_pc[t] = "recv"}

\* C28: when execute returns and fewer than capacity threads exist, the tasks
\* pending in the channel are at most as many as the session threads that
\* hold no task.
C28_NoQueueingBelowCapacity ==
    [][ (exec_pc = "send" /\ exec_pc' = "idle" /\ pool_size < pool_capacity)
          => Len(pool_chan') <= Cardinality(Waiting') ]_vars

(* Further properties of the thread-pool server (SpecThreadPoolServer). *)
\* A read of Request::deserialize in _handle_client returns: bytes have
\* arrived, or the client has disconnected.  This is the enabling condition
\* of TpRead(t), which always consumes bytes or changes tpc.
TpCanRead(t) ==
    /\ t \in TpThreads
    /\ tpc[t] = "read"
    /\ rxq[tp_stream[t]] # <<>> \/ peer[tp_stream[t]] = "closed"

\* do_work is running in thread t: the enabling condition of TpWork(t).
TpCanWork(t) == t \in TpThreads /\ tpc[t] = "work"

\* The pool threads are scheduled: a thread that can take a closure, finish a
\* read, finish its work or write a response eventually does.  The weak
\* fairness of TpRead and TpWork is written out, with TpCanRead(t) for
\* ENABLED <<TpRead(t)>>_vars and TpCanWork(t) for ENABLED <<TpWork(t)>>_vars.
\* Nothing is assumed of the peers, nor of the time at which main returns.
FairSpecThreadPoolServer ==
    /\ SpecThreadPoolServer
    /\ \A t \in 1..MaxTpSize :
         /\ WF_vars(t \in TpThreads /\ TpRecv(t))
         /\ []<>(~TpCanRead(t)) \/ []<><<t \in TpThreads /\ TpRead(t)>>_vars
         /\ []<>(~TpCanWork(t)) \/ []<><<t \in TpThreads /\ TpWork(t)>>_vars
         /\ WF_vars(t \in TpThreads /\ TpWrite(t))

\* The pool threads serving connection c, the positions of c in the channel,
\* and the pool threads that are free or whose client has disconnected.
Owners(c) == {t \in TpThreads : tp_stream[t] = c}
Queued(c) == {k \in 1..Len(tp_chan) : tp_chan[k] = c}
Freeable == {t \in TpThreads : tp_stream[t] = 0 \/ peer[tp_stream[t]] = "closed"}

\* In every state: a connection is in the channel or with one pool thread,
\* never both or twice, for as long as the server has it open; at most
\* tp_size connections are being served; and a connection still in the
\* channel has had no request read and no response written.
TpHandedToOneThread ==
    /\ \A c \in Sockets :
          /\ Cardinality(Owners(c)) + Cardinality(Queued(c)) <= 1
          /\ srv[c] = "open" => Cardinality(Owners(c)) + Cardinality(Queued(c)) = 1
          /\ Queued(c) # {} => (wrote[c] = <<>> /\ decoded[c] = 0 /\ read_log[c] = <<>>)
    /\ Cardinality({c \in Sockets : Owners(c) # {}}) <= tp_size

\* In every step in which the server process keeps running: a pool thread
\* gives up its connection only when a read on it fails, with a decode error
\* or because the client has disconnected, and a pool thread takes a
\* connection only when it has none, from the head of the channel.
TpServesUntilTheEnd ==
    ServerUp' =>
    \A t \in TpThreads :
        /\ (tp_stream[t] # 0 /\ tp_stream'[t] # tp_stream[t])
              => LET c == tp_stream[t]
                     o == TpReadOutcome(t)
                 IN  /\ tp_stream'[t] = 0
                     /\ tpc[t] = "read"
                     /\ \/ o.end = "invalid"
                        \/ o.end = "eof" /\ peer[c] = "closed"
                     /\ srv'[c] = "closed"
        /\ (tp_stream[t] = 0 /\ tp_stream'[t] # 0)
              => (tp_chan # <<>> /\ tp_stream'[t] = Head(tp_chan) /\ tp_chan' = Tail(tp_chan))

\* C29: while the server process runs, each accepted connection is with
\* exactly one pool thread or waiting in the channel; a thread serves its
\* connection until a read fails on a decode error or a disconnect; at most
\* tp_size connections are served at a time; a connection waiting in the
\* channel gets no response; and a connection at position k of the channel is
\* eventually taken by a thread once k threads are free or have a client that
\* has disconnected, unless the process ends first.
C29_EachConnectionServedByOneThread ==
    /\ []TpHandedToOneThread
    /\ [][TpServesUntilTheEnd]_vars
    /\ \A c \in Sockets :
          (Queued(c) # {} /\ \A k \in Queued(c) : Cardinality(Freeable) >= k)
             ~> (Owners(c) # {} \/ ~ServerUp)

\* C29 witness: with one pool thread, a first connection was served and has
\* ended, and the thread now serves the second one and has answered it.
C29_Witness ==
    /\ tp_size = 1
    /\ \E c, d \in Sockets :
          /\ c # d
          /\ srv[c] = "closed" /\ wrote[c] # <<>>
          /\ tp_stream[1] = d /\ wrote[d] # <<>>
          /\ tp_chan = <<>>

====
